---- MODULE Spec2Model ----
(***************************************************************************)
(* A model of the Democracy Analyzer core: the keyword scorer and the      *)
(* lexicon sentiment estimator of nlp.ts, the AuthoritarianClassifier      *)
(* (vectorizer, training set, model life cycle, train and predict) and     *)
(* the PDFExtractor (text extraction and training-data extraction).        *)
(*                                                                         *)
(* A text is a sequence of characters, each character a one-character      *)
(* string.  The pure functions are operators that compute as the code      *)
(* computes; each has a specification whose initial states draw the input  *)
(* text from a bounded set and whose single action applies the function.   *)
(* An async method is a chain of actions, one per stretch of code between  *)
(* two awaits; a call that is started and not awaited is settled by an     *)
(* action of its own.  What TensorFlow.js, pdf.js and the remote store do  *)
(* (return or throw) is an input of the action that calls them.            *)
(***************************************************************************)
EXTENDS Integers, Sequences, FiniteSets, TLC

VARIABLES
  text,           \* the text handed to analyzeText / analyzeSentiment / textToVector
  pc,             \* "call" before the function under study ran, "done" after
  analysis,       \* what analyzeText returned
  sentiment,      \* what analyzeSentiment returned
  vector,         \* what textToVector returned
  trainingData,   \* AuthoritarianClassifier.trainingData
  lastData,       \* the argument of the latest call, when it was addTrainingData
  returned,       \* the value that addTrainingData call returned
  model,          \* AuthoritarianClassifier.model
  isModelReady,   \* AuthoritarianClassifier.isModelReady
  trainingStatus, \* AuthoritarianClassifier.trainingStatus
  useSupabase,    \* AuthoritarianClassifier.useSupabase
  trainPc,        \* where the train() call in flight is suspended, or "idle"
  fit,            \* the arguments of the this.model.fit call in flight
  outcome,        \* the latest public call and how it ended
  pending,        \* the asynchronous storage calls started and not yet settled
  pdf,            \* PDFExtractor.pdfData and numPages
  extractedText,  \* PDFExtractor.extractedText
  processingStatus, \* PDFExtractor.processingStatus
  extractedTextId,  \* PDFExtractor.extractedTextId
  extractPc,      \* the extractText call in flight: its position and locals
  extraction,     \* the latest call on the extractor and how it ended
  app             \* the state of the App component that gates the classifier

textVars == <<text, pc, analysis, sentiment, vector>>

classifierVars ==
  <<trainingData, lastData, returned, model, isModelReady, trainingStatus,
    useSupabase, trainPc, fit, outcome, pending>>

extractorVars ==
  <<pdf, extractedText, processingStatus, extractedTextId, extractPc, extraction>>

vars == <<textVars, classifierVars, extractorVars, app>>

\* this.model = null
Null == [built |-> FALSE, layers |-> <<>>, fits |-> 0, loaded |-> FALSE]

\* no fit call is in flight
NoFit == [data |-> <<>>, epochs |-> 0, batchSize |-> 0]

\* no public call was made yet
NoOutcome == [op |-> "none"]

\* no document is loaded: pdfData = null, numPages = 0
NoPdf == [data |-> <<>>, loaded |-> FALSE, corrupt |-> FALSE, numPages |-> 0]

\* no extractText call is in flight
NoExtract ==
  [at |-> "idle", startPageNum |-> 0, maxPage |-> 0, batch |-> 0, text |-> <<>>]

\* the field initialisers of PDFExtractor, lines 12-17
ExtractorInitialisers ==
  /\ pdf = NoPdf
  /\ extractedText = <<>>
  /\ processingStatus = <<"", 0, 0>>
  /\ extractedTextId = "null"
  /\ extractPc = NoExtract
  /\ extraction = NoOutcome

\* the field initialisers of AuthoritarianClassifier, lines 725-732, but
\* for useSupabase
ClassifierInitialisers ==
  /\ trainingData = <<>>
  /\ lastData = <<>>
  /\ returned = 0
  /\ model = Null
  /\ isModelReady = FALSE
  /\ trainingStatus = <<"", "">>
  /\ trainPc = "idle"
  /\ fit = NoFit
  /\ outcome = NoOutcome
  /\ pending = {}

\* the state of the App when it is mounted: the useState initial values of
\* lines 24, 37 and 38, the effect of line 52 run on the empty training set.
\* mlPrediction is the empty sequence for null.  trained is no state of the
\* App: it records whether a train() call started by trainModel returned
\* its history.
NoApp ==
  [trainingDataSize |-> 0, isTraining |-> FALSE, mlPrediction |-> <<>>,
   trained |-> FALSE]

\* the field initialisers of the two classes, App.tsx lines 725-732 and
\* pdfExtractor.ts lines 12-17: the values the specifications of the pure
\* functions keep
FieldInitialisers ==
  /\ ExtractorInitialisers
  /\ ClassifierInitialisers
  /\ useSupabase = FALSE
  /\ app = NoApp

----------------------------------------------------------------------------
(* Characters and the JavaScript string primitives the code uses.          *)

UpperCase ==
  {"A","B","C","D","E","F","G","H","I","J","K","L","M",
   "N","O","P","Q","R","S","T","U","V","W","X","Y","Z"}

LowerCase ==
  {"a","b","c","d","e","f","g","h","i","j","k","l","m",
   "n","o","p","q","r","s","t","u","v","w","x","y","z"}

Digits == {"0","1","2","3","4","5","6","7","8","9"}

\* the characters String.prototype.trim and the regex class \s remove
WhiteSpace == {" ", "\t", "\n", "\r"}

LowerOf ==
  "A" :> "a" @@ "B" :> "b" @@ "C" :> "c" @@ "D" :> "d" @@ "E" :> "e" @@
  "F" :> "f" @@ "G" :> "g" @@ "H" :> "h" @@ "I" :> "i" @@ "J" :> "j" @@
  "K" :> "k" @@ "L" :> "l" @@ "M" :> "m" @@ "N" :> "n" @@ "O" :> "o" @@
  "P" :> "p" @@ "Q" :> "q" @@ "R" :> "r" @@ "S" :> "s" @@ "T" :> "t" @@
  "U" :> "u" @@ "V" :> "v" @@ "W" :> "w" @@ "X" :> "x" @@ "Y" :> "y" @@
  "Z" :> "z"

\* the regex class \w
IsWordChar(c) == c \in LowerCase \/ c \in UpperCase \/ c \in Digits \/ c = "_"

LowerChar(c) == IF c \in UpperCase THEN LowerOf[c] ELSE c

\* String.prototype.toLowerCase
toLowerCase(s) == [i \in 1..Len(s) |-> LowerChar(s[i])]

Min2(x, y) == IF x <= y THEN x ELSE y

Max2(x, y) == IF x >= y THEN x ELSE y

MinOf(S) == CHOOSE x \in S : \A y \in S : x <= y

\* String.prototype.substring(start, end) with 0-based start, exclusive end
substring(s, start, end) == SubSeq(s, start + 1, end)

\* String.prototype.trim
trim(s) ==
  IF \A i \in 1..Len(s) : s[i] \in WhiteSpace THEN <<>>
  ELSE SubSeq(s,
         CHOOSE i \in 1..Len(s) :
           s[i] \notin WhiteSpace /\ \A j \in 1..(i - 1) : s[j] \in WhiteSpace,
         CHOOSE i \in 1..Len(s) :
           s[i] \notin WhiteSpace /\ \A j \in (i + 1)..Len(s) : s[j] \in WhiteSpace)

\* String.prototype.split(separator+), sep[i] telling whether s[i] is a
\* separator character:
\* the maximal runs of other characters in order, with an empty string in
\* front when s starts with a separator and one at the end when it ends
\* with one; the empty text gives one empty string
SplitRuns(s, sep) ==
  LET positions == [i \in 1..Len(s) |-> i]
      starts == SelectSeq(positions,
                  LAMBDA i : ~sep[i] /\ (i = 1 \/ sep[i - 1]))
      ends   == SelectSeq(positions,
                  LAMBDA i : ~sep[i] /\ (i = Len(s) \/ sep[i + 1]))
      runs   == [k \in 1..Len(starts) |-> SubSeq(s, starts[k], ends[k])]
  IN IF s = <<>> THEN << <<>> >>
     ELSE (IF sep[1] THEN << <<>> >> ELSE <<>>)
          \o runs
          \o (IF sep[Len(s)] THEN << <<>> >> ELSE <<>>)

RECURSIVE Flatten(_)
\* the concatenation of a sequence of texts, half by half so that the
\* evaluation stays shallow on long sequences
Flatten(ss) ==
  IF ss = <<>> THEN <<>>
  ELSE IF Len(ss) = 1 THEN ss[1]
  ELSE Flatten(SubSeq(ss, 1, Len(ss) \div 2))
         \o Flatten(SubSeq(ss, Len(ss) \div 2 + 1, Len(ss)))

RECURSIVE Dedupe(_, _)
\* the elements of s in first-occurrence order, appended to acc
Dedupe(s, acc) ==
  IF s = <<>> THEN acc
  ELSE Dedupe(Tail(s),
              IF \E i \in 1..Len(acc) : acc[i] = Head(s)
              THEN acc ELSE Append(acc, Head(s)))

----------------------------------------------------------------------------
(* indicators.ts: the four indicators and their keywords.                  *)

Keywords1 ==
  << <<"c","o","n","s","t","i","t","u","t","i","o","n">>,
     <<"e","l","e","c","t","i","o","n">>,
     <<"s","u","s","p","e","n","d">>,
     <<"r","e","j","e","c","t">>,
     <<"r","u","l","e","s">>,
     <<"d","e","m","o","c","r","a","c","y">>,
     <<"c","o","u","p">>,
     <<"o","v","e","r","t","h","r","o","w">>,
     <<"m","i","l","i","t","a","r","y">>,
     <<"e","x","t","r","a","c","o","n","s","t","i","t","u","t","i","o","n","a","l">>,
     <<"m","a","r","t","i","a","l"," ","l","a","w">>,
     <<"e","m","e","r","g","e","n","c","y"," ","p","o","w","e","r","s">>,
     <<"o","v","e","r","r","i","d","e">>,
     <<"i","g","n","o","r","e"," ","r","e","s","u","l","t","s">>,
     <<"r","i","g","g","e","d"," ","e","l","e","c","t","i","o","n">>,
     <<"s","t","o","l","e","n"," ","e","l","e","c","t","i","o","n">>,
     <<"i","l","l","e","g","a","l"," ","v","o","t","e","s">>,
     <<"c","o","n","s","t","i","t","u","t","i","o","n","a","l"," ","c","r","i","s","i","s">>,
     <<"r","e","f","u","s","e"," ","t","o"," ","c","o","n","c","e","d","e">>,
     <<"r","e","f","u","s","e"," ","t","o"," ","a","c","c","e","p","t">>,
     <<"d","e","l","a","y"," ","e","l","e","c","t","i","o","n">>,
     <<"p","o","s","t","p","o","n","e"," ","e","l","e","c","t","i","o","n">>,
     <<"c","a","n","c","e","l"," ","e","l","e","c","t","i","o","n">>,
     <<"n","u","l","l","i","f","y">> >>

Keywords2 ==
  << <<"e","n","e","m","y">>,
     <<"t","r","a","i","t","o","r">>,
     <<"c","r","i","m","i","n","a","l">>,
     <<"s","u","b","v","e","r","s","i","v","e">>,
     <<"i","l","l","e","g","i","t","i","m","a","t","e">>,
     <<"t","h","r","e","a","t">>,
     <<"f","o","r","e","i","g","n">>,
     <<"a","g","e","n","t">>,
     <<"s","p","y">>,
     <<"t","e","r","r","o","r","i","s","t">>,
     <<"c","o","r","r","u","p","t">>,
     <<"r","a","d","i","c","a","l">>,
     <<"e","x","t","r","e","m","i","s","t">>,
     <<"d","a","n","g","e","r","o","u","s">>,
     <<"u","n","-","A","m","e","r","i","c","a","n">>,
     <<"u","n","p","a","t","r","i","o","t","i","c">>,
     <<"t","r","e","a","s","o","n","o","u","s">>,
     <<"s","e","d","i","t","i","o","n">>,
     <<"c","o","n","s","p","i","r","a","c","y">>,
     <<"d","e","e","p"," ","s","t","a","t","e">>,
     <<"p","u","p","p","e","t">>,
     <<"c","o","n","t","r","o","l","l","e","d"," ","b","y">>,
     <<"i","n","f","i","l","t","r","a","t","e","d">>,
     <<"f","i","f","t","h"," ","c","o","l","u","m","n">>,
     <<"d","i","s","l","o","y","a","l">>,
     <<"e","n","e","m","y"," ","o","f"," ","t","h","e"," ","p","e","o","p","l","e">>,
     <<"e","n","e","m","y"," ","o","f"," ","t","h","e"," ","s","t","a","t","e">>,
     <<"l","o","c","k"," ","t","h","e","m"," ","u","p">> >>

Keywords3 ==
  << <<"v","i","o","l","e","n","c","e">>,
     <<"f","o","r","c","e">>,
     <<"a","t","t","a","c","k">>,
     <<"s","u","p","p","r","e","s","s">>,
     <<"s","i","l","e","n","c","e">>,
     <<"c","e","n","s","o","r">>,
     <<"m","e","d","i","a">>,
     <<"j","o","u","r","n","a","l","i","s","t">>,
     <<"p","r","o","t","e","s","t">>,
     <<"c","i","v","i","l"," ","l","i","b","e","r","t","i","e","s">>,
     <<"r","i","g","h","t","s">>,
     <<"c","r","a","c","k","d","o","w","n">>,
     <<"c","r","u","s","h">>,
     <<"d","e","s","t","r","o","y">>,
     <<"e","l","i","m","i","n","a","t","e">>,
     <<"r","o","u","g","h"," ","u","p">>,
     <<"b","e","a","t">>,
     <<"f","i","g","h","t"," ","b","a","c","k">>,
     <<"t","a","k","e"," ","t","h","e","m"," ","o","u","t">>,
     <<"p","u","n","c","h">>,
     <<"s","e","c","o","n","d"," ","a","m","e","n","d","m","e","n","t">>,
     <<"a","r","m","e","d">>,
     <<"m","i","l","i","t","i","a">>,
     <<"m","o","b">>,
     <<"r","i","o","t">>,
     <<"s","t","o","r","m">>,
     <<"t","a","k","e"," ","b","y"," ","f","o","r","c","e">>,
     <<"b","l","o","o","d">>,
     <<"s","a","c","r","i","f","i","c","e">>,
     <<"b","a","t","t","l","e">>,
     <<"w","a","r">>,
     <<"c","o","m","b","a","t">>,
     <<"s","t","r","u","g","g","l","e">> >>

Keywords4 ==
  << <<"r","e","s","t","r","i","c","t">>,
     <<"l","i","m","i","t">>,
     <<"c","u","r","t","a","i","l">>,
     <<"f","r","e","e","d","o","m">>,
     <<"l","i","b","e","r","t","y">>,
     <<"r","i","g","h","t","s">>,
     <<"p","r","e","s","s">>,
     <<"s","p","e","e","c","h">>,
     <<"a","s","s","e","m","b","l","y">>,
     <<"o","p","p","o","s","i","t","i","o","n">>,
     <<"d","i","s","s","e","n","t">>,
     <<"b","a","n">>,
     <<"s","h","u","t"," ","d","o","w","n">>,
     <<"c","l","o","s","e">>,
     <<"c","e","n","s","o","r">>,
     <<"s","i","l","e","n","c","e">>,
     <<"g","a","g">>,
     <<"m","u","z","z","l","e">>,
     <<"f","a","k","e"," ","n","e","w","s">>,
     <<"e","n","e","m","y"," ","o","f"," ","t","h","e"," ","p","e","o","p","l","e">>,
     <<"l","i","b","e","l"," ","l","a","w","s">>,
     <<"d","e","f","a","m","a","t","i","o","n">>,
     <<"n","a","t","i","o","n","a","l"," ","s","e","c","u","r","i","t","y">>,
     <<"s","u","r","v","e","i","l","l","a","n","c","e">>,
     <<"m","o","n","i","t","o","r">>,
     <<"t","r","a","c","k">>,
     <<"i","n","v","e","s","t","i","g","a","t","e">>,
     <<"d","e","t","a","i","n">>,
     <<"a","r","r","e","s","t">>,
     <<"i","m","p","r","i","s","o","n">>,
     <<"d","e","p","o","r","t">>,
     <<"e","x","p","e","l">> >>

INDICATORS ==
  << [id |-> 1, keywords |-> Keywords1],
     [id |-> 2, keywords |-> Keywords2],
     [id |-> 3, keywords |-> Keywords3],
     [id |-> 4, keywords |-> Keywords4] >>

\* prepareKeywords(): every keyword lower-cased
processedIndicators ==
  [k \in 1..Len(INDICATORS) |->
     [id |-> INDICATORS[k].id,
      processedKeywords |->
        [j \in 1..Len(INDICATORS[k].keywords) |->
           toLowerCase(INDICATORS[k].keywords[j])]]]

----------------------------------------------------------------------------
(* analyzeSentiment.  The score is an IEEE-754 double built by repeated    *)
(* += 0.1 and -= 0.1.  Write c for the double nearest 0.1, which is        *)
(* 7205759403792794 * 2^-56, and u for 2^-56.  Every value the loop can    *)
(* produce is tenths * c + ulps * u with a small integer ulps, and the     *)
(* model keeps that pair: tenths counts the net additions and ulps is the  *)
(* rounding error accumulated so far.  Because 5c = 2^-1 + 2u and          *)
(* 10c = 1 + 4u, the binade of a value, and so the spacing of the doubles  *)
(* around it, is decided by the pair alone.                                *)

positiveWords ==
  { <<"g","o","o","d">>,
    <<"g","r","e","a","t">>,
    <<"e","x","c","e","l","l","e","n","t">>,
    <<"p","o","s","i","t","i","v","e">>,
    <<"w","o","n","d","e","r","f","u","l">>,
    <<"b","e","s","t">>,
    <<"l","o","v","e">>,
    <<"h","a","p","p","y">>,
    <<"r","i","g","h","t">>,
    <<"f","r","e","e">> }

negativeWords ==
  { <<"b","a","d">>,
    <<"t","e","r","r","i","b","l","e">>,
    <<"a","w","f","u","l">>,
    <<"n","e","g","a","t","i","v","e">>,
    <<"w","o","r","s","t">>,
    <<"h","a","t","e">>,
    <<"s","a","d">>,
    <<"w","r","o","n","g">>,
    <<"e","v","i","l">>,
    <<"c","o","r","r","u","p","t">> }

Zero == [tenths |-> 0, ulps |-> 0]

\* the doubles 1 and -1: 1 = 10c - 4u
One == [tenths |-> 10, ulps |-> -4]

MinusOne == [tenths |-> -10, ulps |-> 4]

\* the double -0.2, which is exactly -2c
MinusTwoTenths == [tenths |-> -2, ulps |-> 0]

\* x < y on doubles (|ulps| is far below c / u)
Less(x, y) ==
  \/ x.tenths < y.tenths
  \/ x.tenths = y.tenths /\ x.ulps < y.ulps

Abs(n) == IF n < 0 THEN -n ELSE n

\* c mod 2^8 in units of u: the low bits of 7205759403792794
CLow == 154

\* the spacing, in units of u, of the doubles in the binade of the exact
\* value a * c + r * u
Spacing(a, r) ==
  LET m == Abs(a)
      s == IF a > 0 THEN r ELSE -r
  IN IF m > 40 \/ (m = 40 /\ s >= -16) THEN 64      \* |x| >= 4
     ELSE IF m > 20 \/ (m = 20 /\ s >= -8) THEN 32   \* |x| >= 2
     ELSE IF m > 10 \/ (m = 10 /\ s >= -4) THEN 16   \* |x| >= 1
     ELSE IF m > 5 \/ (m = 5 /\ s >= -2) THEN 8      \* |x| >= 1/2
     ELSE IF m >= 3 THEN 4                           \* |x| >= 1/4
     ELSE IF m >= 2 THEN 2                           \* |x| >= 1/8
     ELSE 1

\* the double nearest to the exact value a * c + r * u, ties to even
RoundToDouble(a, r) ==
  LET g   == Spacing(a, r)
      low == (CLow * a + r) % (2 * g)
      rem == low % g
      adj == IF rem = 0 THEN 0
             ELSE IF 2 * rem < g THEN -rem
             ELSE IF 2 * rem > g THEN g - rem
             ELSE IF low - rem = 0 THEN -rem ELSE g - rem
  IN [tenths |-> a, ulps |-> r + adj]

\* score += 0.1 (d = 1) and score -= 0.1 (d = -1)
AddTenth(x, d) == RoundToDouble(x.tenths + d, x.ulps)

\* split(/\W+/)
SplitNonWord(s) == SplitRuns(s, [i \in 1..Len(s) |-> ~IsWordChar(s[i])])

RECURSIVE SumWords(_, _)
\* the forEach loop over the words
SumWords(words, score) ==
  IF words = <<>> THEN score
  ELSE LET w  == Head(words)
           s1 == IF w \in positiveWords THEN AddTenth(score, 1) ELSE score
           s2 == IF w \in negativeWords THEN AddTenth(s1, -1) ELSE s1
       IN SumWords(Tail(words), s2)

\* variant of Clamp: the lower limit left out
ClampHiOnly(score) == IF Less(One, score) THEN One ELSE score

\* Math.max(-1, Math.min(1, score))
Clamp(score) ==
  LET hi == IF Less(One, score) THEN One ELSE score
  IN IF Less(hi, MinusOne) THEN MinusOne ELSE hi

analyzeSentiment(t) ==
  Clamp(SumWords(SplitNonWord(toLowerCase(t)), Zero))

----------------------------------------------------------------------------
(* analyzeText.                                                            *)

\* the characters of context kept on each side of a match
ContextRadius == 30

\* the regex assertion \b at the gap before position i (1-based) of t
WordBoundary(t, i) ==
  LET before == i > 1 /\ i - 1 <= Len(t) /\ IsWordChar(t[i - 1])
      after  == i >= 1 /\ i <= Len(t) /\ IsWordChar(t[i])
  IN before # after

\* variant of MatchesAt: the regex without its \b anchors
MatchesAtNoBoundary(t, keyword, i) ==
  /\ i + Len(keyword) - 1 <= Len(t)
  /\ \A j \in 1..Len(keyword) : LowerChar(t[i + j - 1]) = LowerChar(keyword[j])

\* variant of MatchesAt: the regex without its i flag
MatchesAtCaseSensitive(t, keyword, i) ==
  /\ i + Len(keyword) - 1 <= Len(t)
  /\ WordBoundary(t, i)
  /\ WordBoundary(t, i + Len(keyword))
  /\ \A j \in 1..Len(keyword) : t[i + j - 1] = keyword[j]

\* new RegExp(`\\b${keyword}\\b`, 'gi') matches at position i of t
MatchesAt(t, keyword, i) ==
  /\ i + Len(keyword) - 1 <= Len(t)
  /\ WordBoundary(t, i)
  /\ WordBoundary(t, i + Len(keyword))
  /\ \A j \in 1..Len(keyword) : LowerChar(t[i + j - 1]) = LowerChar(keyword[j])

RECURSIVE RegexScan(_, _, _)
\* the start positions a global regex finds from position `from` on: the
\* leftmost match, then the search resumes at lastIndex, the end of that match
RegexScan(t, keyword, from) ==
  LET hits == {i \in from..(Len(t) - Len(keyword) + 1) : MatchesAt(t, keyword, i)}
  IN IF hits = {} THEN <<>>
     ELSE <<MinOf(hits)>> \o RegexScan(t, keyword, MinOf(hits) + Len(keyword))

\* text.match(regex): the matched strings, <<>> standing for null
Found(t, keyword) ==
  LET at == RegexScan(t, keyword, 1)
  IN [n \in 1..Len(at) |-> SubSeq(t, at[n], at[n] + Len(keyword) - 1)]

\* variant of Details: the context ends ContextRadius characters after the
\* start of the match
DetailsEndFromStart(t, keyword) ==
  LET at == RegexScan(t, keyword, 1)
  IN [n \in 1..Len(at) |->
        LET index == at[n] - 1
            start == Max2(0, index - ContextRadius)
            end   == Min2(Len(t), index + ContextRadius)
        IN [original |-> SubSeq(t, at[n], at[n] + Len(keyword) - 1),
            context  |-> substring(t, start, end)]]

\* the while loop over tempRegex.exec(text): one detail per match
Details(t, keyword) ==
  LET at == RegexScan(t, keyword, 1)
  IN [n \in 1..Len(at) |->
        LET index == at[n] - 1
            start == Max2(0, index - ContextRadius)
            end   == Min2(Len(t), index + Len(keyword) + ContextRadius)
        IN [original |-> SubSeq(t, at[n], at[n] + Len(keyword) - 1),
            context  |-> substring(t, start, end)]]

\* the forEach over processedKeywords: matches and matchDetails grow in
\* keyword order, by what text.match finds for the keyword and, when it
\* finds something, by the details of the exec loop
CollectMatches(t, keywords, acc) ==
  [matches      |-> acc.matches
                      \o Flatten([k \in 1..Len(keywords) |-> Found(t, keywords[k])]),
   matchDetails |-> acc.matchDetails
                      \o Flatten([k \in 1..Len(keywords) |->
                                    IF Found(t, keywords[k]) = <<>> THEN <<>>
                                    ELSE Details(t, keywords[k])])]

\* [...new Set(matches)]: Set compares strings exactly, letter case included
uniqueMatchesOf(matches) == Dedupe(matches, <<>>)

\* variant of BaseScore: the cap of 10 left out
BaseScoreUncapped(n) == n * 2

\* Math.min(10, uniqueMatches.length * 2)
BaseScore(n) == Min2(10, n * 2)

\* variant of AdjustedScore: the adjustment made even without a match
AdjustedScoreAlways(t, n, score) ==
  IF Less(analyzeSentiment(t), MinusTwoTenths)
  THEN Min2(10, score + 1)
  ELSE score

\* the sentiment adjustment: negative sentiment adds one, capped at 10
AdjustedScore(t, n, score) ==
  IF n > 0 /\ Less(analyzeSentiment(t), MinusTwoTenths)
  THEN Min2(10, score + 1)
  ELSE score

\* the result for one indicator
analyzeIndicator(t, indicator) ==
  LET got           == CollectMatches(t, indicator.processedKeywords,
                                      [matches |-> <<>>, matchDetails |-> <<>>])
      uniqueMatches == uniqueMatchesOf(got.matches)
  IN [indicator    |-> indicator.id,
      score        |-> AdjustedScore(t, Len(uniqueMatches),
                                     BaseScore(Len(uniqueMatches))),
      matches      |-> uniqueMatches,
      matchDetails |-> Dedupe(got.matchDetails, <<>>)]

\* variant of IsBlank: the trim() test left out
IsBlankEmptyOnly(t) == t = <<>>

\* the guard of line 70: !text || text.trim().length === 0
IsBlank(t) == t = <<>> \/ Len(trim(t)) = 0

analyzeText(t) ==
  IF IsBlank(t) THEN <<>>
  ELSE [k \in 1..Len(processedIndicators) |->
          analyzeIndicator(t, processedIndicators[k])]

----------------------------------------------------------------------------
(* The input texts of the scorer: every concatenation of at most MaxFrags  *)
(* of the fragments below.                                                 *)

MaxFrags == 3

Fragments ==
  { <<"f","o","r","c","e">>,
    <<"e","n">>,
    <<"d">>,
    <<" ">>,
    <<" ","m","o","b"," ","r","i","o","t"," ","b","e","a","t"," ",
      "a","r","m","e","d"," ","b","l","o","o","d"," ">>,
    <<" ","c","o","r","r","u","p","t"," ","b","a","d"," ","e","v","i","l",",",
      " ","c","e","n","s","o","r"," ","F","o","r","c","e",".","\n">> }

TextsOf(frags, n) ==
  { Flatten(fs) : fs \in UNION { [1..m -> frags] : m \in 0..n } }

AnalyzeTexts == TextsOf(Fragments, MaxFrags)

InitAnalyze ==
  /\ text \in AnalyzeTexts
  /\ pc = "call"
  /\ analysis = <<>>
  /\ sentiment = Zero
  /\ vector = <<>>
  /\ FieldInitialisers

\* a call of analyzeText(text)
AnalyzeText ==
  /\ pc = "call"
  /\ analysis' = analyzeText(text)
  /\ pc' = "done"
  /\ UNCHANGED <<text, sentiment, vector, classifierVars, extractorVars, app>>

NextAnalyze == AnalyzeText

SpecAnalyze == InitAnalyze /\ [][NextAnalyze]_vars

----------------------------------------------------------------------------
(* Properties of analyzeText, checked under SpecAnalyze.                   *)

Range(s) == { s[i] : i \in 1..Len(s) }

\* every character of t is white space (the empty text included)
AllWhite(t) == \A i \in 1..Len(t) : t[i] \in WhiteSpace

\* m occurs in c as a contiguous piece
Contains(c, m) ==
  \E i \in 1..(Len(c) - Len(m) + 1) : SubSeq(c, i, i + Len(m) - 1) = m

\* the piece of t that starts at i and is as long as kw
PieceAt(t, kw, i) == SubSeq(t, i, i + Len(kw) - 1)

\* kw occurs at position i of t in any letter case
OccursAt(t, kw, i) ==
  /\ i + Len(kw) - 1 <= Len(t)
  /\ LowerChar(t[i]) = LowerChar(kw[1])
  /\ toLowerCase(PieceAt(t, kw, i)) = toLowerCase(kw)

\* kw occurs at position i of t as a whole word: in any letter case, and
\* neither the character before it nor the one after it is a word character
WholeWordAt(t, kw, i) ==
  /\ OccursAt(t, kw, i)
  /\ i = 1 \/ ~IsWordChar(t[i - 1])
  /\ i + Len(kw) > Len(t) \/ ~IsWordChar(t[i + Len(kw)])

OccursWhole(t, kw) == \E i \in 1..Len(t) : WholeWordAt(t, kw, i)

OccursInside(t, kw) ==
  \E i \in 1..Len(t) : OccursAt(t, kw, i) /\ ~WholeWordAt(t, kw, i)

\* twice the number of matches, capped at 10
CappedDouble(u) == IF 2 * u > 10 THEN 10 ELSE 2 * u

\* C1: for every text and every indicator the score analyzeText returns is
\* within 0..10
C1_ScoreInRange ==
  pc = "done" =>
    \A k \in 1..Len(analysis) : analysis[k].score \in 0..10

\* the cap acted: six distinct matches, score 10
C1_Witness ==
  /\ pc = "done"
  /\ \E k \in 1..Len(analysis) :
       Len(analysis[k].matches) >= 6 /\ analysis[k].score = 10

\* C2: the score of each indicator is min(10, 2u), plus 1 (capped at 10)
\* exactly when u > 0 and analyzeSentiment(text) < -0.2, u being the number
\* of entries of that indicator's own matches
C2_ScoreFormula ==
  pc = "done" =>
    \A k \in 1..Len(analysis) :
      LET u       == Len(analysis[k].matches)
          boosted == u > 0 /\ Less(analyzeSentiment(text), MinusTwoTenths)
      IN analysis[k].score =
           IF boosted
           THEN (IF CappedDouble(u) + 1 > 10 THEN 10 ELSE CappedDouble(u) + 1)
           ELSE CappedDouble(u)

\* negative sentiment, one indicator at the cap, another boosted to an odd
\* score and a third with no match left at 0
C2_Witness ==
  /\ pc = "done"
  /\ Less(analyzeSentiment(text), MinusTwoTenths)
  /\ \E k1, k2, k3 \in 1..Len(analysis) :
       /\ Len(analysis[k1].matches) >= 5 /\ analysis[k1].score = 10
       /\ Len(analysis[k2].matches) = 1 /\ analysis[k2].score = 3
       /\ Len(analysis[k3].matches) = 0 /\ analysis[k3].score = 0

\* C3: no two entries of an indicator's matches are equal when compared
\* case-insensitively
C3_NoCaseInsensitiveDuplicates ==
  pc = "done" =>
    \A k \in 1..Len(analysis) :
      \A a, b \in 1..Len(analysis[k].matches) :
        a # b => toLowerCase(analysis[k].matches[a])
                   # toLowerCase(analysis[k].matches[b])

C5_WholeWordKeywordFound ==
  pc = "done" =>
    \A k \in 1..Len(INDICATORS) :
      \A j \in 1..Len(INDICATORS[k].keywords) :
        \A i \in 1..Len(text) :
          WholeWordAt(text, INDICATORS[k].keywords[j], i) =>
            LET m == PieceAt(text, INDICATORS[k].keywords[j], i)
            IN /\ Len(analysis) = Len(INDICATORS)
               /\ analysis[k].score > 0
               /\ m \in Range(analysis[k].matches)
               /\ \E d \in Range(analysis[k].matchDetails) :
                    d.original = m /\ Contains(d.context, m)

\* a keyword occurs as a whole word with a capital letter and is reported
C5_Witness ==
  /\ pc = "done"
  /\ \E i \in 1..Len(text) :
       /\ WholeWordAt(text, <<"f","o","r","c","e">>, i)
       /\ PieceAt(text, <<"f","o","r","c","e">>, i) = <<"F","o","r","c","e">>
  /\ <<"F","o","r","c","e">> \in Range(analysis[3].matches)

\* C6: a keyword that does not occur as a whole word (it occurs, if at all,
\* only inside a longer word) gives its indicator no match and no
\* matchDetails entry, and an indicator none of whose keywords occurs as a
\* whole word has score 0
C6_NoMatchInsideWord ==
  pc = "done" =>
    \A k \in 1..Len(analysis) :
      /\ \A j \in 1..Len(INDICATORS[k].keywords) :
           LET kw == INDICATORS[k].keywords[j]
           IN ~OccursWhole(text, kw) =>
                /\ \A m \in Range(analysis[k].matches) :
                     toLowerCase(m) # toLowerCase(kw)
                /\ \A d \in Range(analysis[k].matchDetails) :
                     toLowerCase(d.original) # toLowerCase(kw)
      /\ (\A j \in 1..Len(INDICATORS[k].keywords) :
            ~OccursWhole(text, INDICATORS[k].keywords[j]))
           => /\ analysis[k].score = 0
              /\ analysis[k].matches = <<>>
              /\ analysis[k].matchDetails = <<>>

\* "force" occurs, but only inside a longer word, and indicator 3 scores 0
C6_Witness ==
  /\ pc = "done"
  /\ OccursInside(text, <<"f","o","r","c","e">>)
  /\ ~OccursWhole(text, <<"f","o","r","c","e">>)
  /\ Len(analysis) = 4
  /\ analysis[3].score = 0

----------------------------------------------------------------------------
(* analyzeSentiment on its own: the input texts are the concatenations of  *)
(* at most MaxSentFrags of the fragments below.                            *)

MaxSentFrags == 4

SentFragments ==
  { <<"b","a","d"," ","e","v","i","l",","," ","S","A","D","\n">>,
    <<"g","o","o","d"," ","G","r","e","a","t","-","b","e","s","t"," ">>,
    <<"b","a","d">>,
    <<"f","r","e","e">>,
    <<"l","y">>,
    <<" ">> }

SentimentTexts == TextsOf(SentFragments, MaxSentFrags)

InitSentiment ==
  /\ text \in SentimentTexts
  /\ pc = "call"
  /\ analysis = <<>>
  /\ sentiment = Zero
  /\ vector = <<>>
  /\ FieldInitialisers

\* a call of analyzeSentiment(text)
AnalyzeSentiment ==
  /\ pc = "call"
  /\ sentiment' = analyzeSentiment(text)
  /\ pc' = "done"
  /\ UNCHANGED <<text, analysis, vector, classifierVars, extractorVars, app>>

NextSentiment == AnalyzeSentiment

SpecSentiment == InitSentiment /\ [][NextSentiment]_vars

\* a token starts at position i of t: a word character not preceded by one
TokenStart(t, i) == IsWordChar(t[i]) /\ (i = 1 \/ ~IsWordChar(t[i - 1]))

\* the token that starts at position i, lower-cased
TokenFrom(t, i) ==
  LET last == MinOf({j \in i..Len(t) : j = Len(t) \/ ~IsWordChar(t[j + 1])})
  IN toLowerCase(SubSeq(t, i, last))

\* the number of tokens of t found in the lexicon
CountIn(t, lexicon) ==
  Cardinality({i \in 1..Len(t) : TokenStart(t, i) /\ TokenFrom(t, i) \in lexicon})

\* the double product 0.1 * k
TimesTenth(k) == RoundToDouble(k, 0)

\* x limited to [-1, 1]
Limited(x) ==
  IF Less(One, x) THEN One ELSE IF Less(x, MinusOne) THEN MinusOne ELSE x

\* C7 as claimed: the result is clamp(0.1 * (P - N), -1, 1), within [-1, 1],
\* 0 for the empty text, positive for positive words only and negative for
\* negative words only
C7_ExactTenths ==
  pc = "done" =>
    LET P == CountIn(text, positiveWords)
        N == CountIn(text, negativeWords)
    IN /\ sentiment = Limited(TimesTenth(P - N))
       /\ ~Less(One, sentiment) /\ ~Less(sentiment, MinusOne)
       /\ text = <<>> => sentiment = Zero
       /\ (P > 0 /\ N = 0) => Less(Zero, sentiment)
       /\ (N > 0 /\ P = 0) => Less(sentiment, Zero)

\* C7 amended: the result is clamp(s, -1, 1) for the running double sum s of
\* +0.1 per positive and -0.1 per negative token in text order; s is
\* (P - N) times the double 0.1 up to a rounding error of at most
\* (P + N)^2 * 2^-56, and is exactly 0 when no token is in a lexicon; the
\* result is within [-1, 1], positive for positive words only and negative
\* for negative words only
C7_TenthsUpToRounding ==
  pc = "done" =>
    LET P == CountIn(text, positiveWords)
        N == CountIn(text, negativeWords)
    IN /\ \E e \in -((P + N) * (P + N))..((P + N) * (P + N)) :
            sentiment = Limited([tenths |-> P - N, ulps |-> e])
       /\ ~Less(One, sentiment) /\ ~Less(sentiment, MinusOne)
       /\ text = <<>> => sentiment = Zero
       /\ (P > 0 /\ N = 0) => Less(Zero, sentiment)
       /\ (N > 0 /\ P = 0) => Less(sentiment, Zero)

\* three negative tokens and one positive one: the sum is below -0.2, the
\* double product 0.1 * -2
C7_Witness ==
  /\ pc = "done"
  /\ CountIn(text, negativeWords) = 3
  /\ CountIn(text, positiveWords) = 1
  /\ Less(sentiment, MinusTwoTenths)

----------------------------------------------------------------------------
(* AuthoritarianClassifier.textToVector.                                   *)

maxSequenceLength == 50

\* replace(/[^\w\s]/g, ''): only word characters and white space stay
StripNonWord(s) == SelectSeq(s, LAMBDA c : IsWordChar(c) \/ c \in WhiteSpace)

\* split(/\s+/)
SplitSpace(s) == SplitRuns(s, [i \in 1..Len(s) |-> s[i] \in WhiteSpace])

\* the lower-case names every object inherits from Object.prototype
ConstructorKey == <<"c","o","n","s","t","r","u","c","t","o","r">>

ProtoKey == <<"_","_","p","r","o","t","o","_","_">>

\* A JavaScript value held in wordCounts or in the vector: the number n is
\* <<"number", n>>; <<"string", k>> is the string made of the source text
\* of the inherited function Object followed by k characters "1"
Num(n) == <<"number", n>>

Str(k) == <<"string", k>>

\* old + 1: a number is incremented, a string gets "1" appended
PlusOne(old) == IF old[1] = "number" THEN Num(old[2] + 1) ELSE Str(old[2] + 1)

\* (wordCounts[word] || 0) + 1 for a word that is no own property yet: 1,
\* but under "constructor" the inherited function is read, it is truthy,
\* and the sum is that function's text with "1" appended
FirstCount(word) == IF word = ConstructorKey THEN Str(1) ELSE Num(1)

RECURSIVE CountAfter(_, _)
\* the value held under word after its k-th occurrence
CountAfter(word, k) ==
  IF k = 1 THEN FirstCount(word) ELSE PlusOne(CountAfter(word, k - 1))

\* the forEach that fills wordCounts: the own properties in insertion order,
\* that is the counted words in order of first occurrence, each with the
\* value its occurrences leave. Assigning a string to __proto__ creates no
\* property.
CountWords(words) ==
  LET counted == SelectSeq(words, LAMBDA w : Len(w) > 2 /\ w # ProtoKey)
      firsts  == SelectSeq([i \in 1..Len(counted) |-> i],
                   LAMBDA i : \A j \in 1..(i - 1) : counted[j] # counted[i])
      times(w) == Cardinality({j \in 1..Len(counted) : counted[j] = w})
  IN [n \in 1..Len(firsts) |->
        LET word == counted[firsts[n]]
        IN [word |-> word, count |-> CountAfter(word, times(word))]]

DigitValue ==
  "0" :> 0 @@ "1" :> 1 @@ "2" :> 2 @@ "3" :> 3 @@ "4" :> 4 @@
  "5" :> 5 @@ "6" :> 6 @@ "7" :> 7 @@ "8" :> 8 @@ "9" :> 9

\* a < b for digit strings of one length
DigitsLess(a, b) ==
  \E i \in 1..Len(a) :
    /\ DigitValue[a[i]] < DigitValue[b[i]]
    /\ \A j \in 1..(i - 1) : a[j] = b[j]

\* 2^32 - 2, the largest array index
MaxIndexKey == <<"4","2","9","4","9","6","7","2","9","4">>

\* the key is an array index: a canonical number below 2^32 - 1 (keys here
\* are longer than two characters, so "0" does not arise)
IsIndexKey(w) ==
  /\ \A i \in 1..Len(w) : w[i] \in Digits
  /\ w[1] # "0"
  /\ \/ Len(w) < Len(MaxIndexKey)
     \/ Len(w) = Len(MaxIndexKey) /\ ~DigitsLess(MaxIndexKey, w)

\* numeric order of two index keys
IndexLess(a, b) ==
  Len(a) < Len(b) \/ (Len(a) = Len(b) /\ DigitsLess(a, b))

\* Object.entries(wordCounts): index keys in ascending numeric order, then
\* the other keys in insertion order
entriesOf(counts) ==
  LET idx    == {n \in 1..Len(counts) : IsIndexKey(counts[n].word)}
      rank(n) == Cardinality({m \in idx : IndexLess(counts[m].word, counts[n].word)}) + 1
      sorted == [r \in 1..Cardinality(idx) |->
                   counts[CHOOSE n \in idx : rank(n) = r]]
  IN sorted \o SelectSeq(counts, LAMBDA e : ~IsIndexKey(e.word))

\* vector[index] = value on a JavaScript array: writing at or past the
\* length extends the array
ArraySet(v, index, value) ==
  IF index < Len(v) THEN [v EXCEPT ![index + 1] = value]
  ELSE v \o [n \in 1..(index - Len(v)) |-> Num(0)] \o <<value>>

\* the array after the first n entries were written from position index
\* on, vector[index + k - 1] = entries[k].count for k = 1, ..., n: the last
\* of these assignments gives the array its length, and each position
\* written holds the count of its entry
Written(v, entries, index, n) ==
  IF n = 0 THEN v
  ELSE LET last == ArraySet(v, index + n - 1, entries[n].count)
       IN [i \in 1..Len(last) |->
             IF index < i /\ i <= index + n THEN entries[i - index].count
             ELSE last[i]]

\* variant of Fill: the index < maxSequenceLength test left out
FillUnguarded(v, entries, index) == Written(v, entries, index, Len(entries))

\* the for loop over the entries, started at index: counts go to positions
\* index, index + 1, ... and the loop breaks at maxSequenceLength, so it
\* writes as many entries as there are positions below maxSequenceLength
Fill(v, entries, index) ==
  LET room == IF index < maxSequenceLength THEN maxSequenceLength - index ELSE 0
  IN Written(v, entries, index, IF Len(entries) < room THEN Len(entries) ELSE room)

\* the tokens of the text: lower-cased, stripped, split on white space
wordsOf(t) == SplitSpace(StripNonWord(toLowerCase(t)))

textToVector(t) ==
  Fill([n \in 1..maxSequenceLength |-> Num(0)],
       entriesOf(CountWords(wordsOf(t))), 0)

----------------------------------------------------------------------------
(* textToVector on its own.  The input texts are a run of n distinct       *)
(* three-character words, n up to MaxVecWords, followed by at most         *)
(* MaxVecFrags of the fragments below.                                     *)

MaxVecWords == 52

MaxVecFrags == 2

DigitChar == <<"0","1","2","3","4","5","6","7","8","9">>

\* the n-th word: w00, w01, ...
VecWord(n) == <<"w", DigitChar[((n \div 10) % 10) + 1], DigitChar[(n % 10) + 1]>>

\* "W01 w02 ... " with n words, odd ones capitalised
VecRun(n) ==
  Flatten([i \in 1..n |->
             IF i % 2 = 1 THEN <<"W">> \o Tail(VecWord(i)) \o <<" ">>
             ELSE VecWord(i) \o <<" ">>])

VecFragments ==
  { <<"w","0","1"," ">>,
    <<"c","o","n","s","t","r","u","c","t","o","r"," ","_","_","p","r","o","t","o","_","_","\n">>,
    <<"2","0","0"," ","0","4","5"," ","1","0","0"," ","o","f"," ">>,
    <<" ","T","h","e","-","e","n","d","!"," ","a","b"," ">> }

VectorTexts ==
  { VecRun(n) \o tail :
      n \in 0..MaxVecWords, tail \in TextsOf(VecFragments, MaxVecFrags) }

InitVector ==
  /\ text \in VectorTexts
  /\ pc = "call"
  /\ analysis = <<>>
  /\ sentiment = Zero
  /\ vector = <<>>
  /\ FieldInitialisers

\* a call of textToVector(text)
TextToVector ==
  /\ pc = "call"
  /\ vector' = textToVector(text)
  /\ pc' = "done"
  /\ UNCHANGED <<text, analysis, sentiment, classifierVars, extractorVars, app>>

NextVector == TextToVector

SpecVector == InitVector /\ [][NextVector]_vars

\* the distinct tokens of t that textToVector counts
CountedTokens(t) == { w \in Range(wordsOf(t)) : Len(w) > 2 }

\* C8: for every text (no token, fewer than 50 distinct tokens, more than
\* 50) textToVector returns a vector of exactly 50 elements
C8_VectorLength50 ==
  pc = "done" => Len(vector) = 50

\* a text with more than 50 distinct tokens was vectorized
C8_Witness ==
  /\ pc = "done"
  /\ Cardinality(CountedTokens(text)) > 50
  /\ Len(vector) = 50
  /\ vector[50] = Num(1)

----------------------------------------------------------------------------
(* AuthoritarianClassifier: the training set.                              *)
(*                                                                         *)
(* A label is a JavaScript number.  The model stores twice the number, so  *)
(* that halves are integers: 8 stands for the label 4 and 5 for 2.5.       *)

MaxBatch == 2

MaxTraining == 3

Examples ==
  { [text |-> <<"x">>, label |-> 0],      \* label 0
    [text |-> <<"x">>, label |-> 8],      \* label 4
    [text |-> <<"x">>, label |-> 5],      \* label 2.5
    [text |-> <<"x">>, label |-> 10],     \* label 5
    [text |-> <<"x">>, label |-> -2],     \* label -1
    [text |-> <<>>,    label |-> 4] }     \* empty text, label 2

Batches == UNION { [1..n -> Examples] : n \in 0..MaxBatch }

\* variant of IsValid: the upper limit taken as 5
IsValidUpTo5(item) ==
  /\ item.text # <<>>
  /\ item.label >= 0
  /\ item.label <= 2 * 5

\* the filter of addTrainingData: item.text is truthy and the label is a
\* number with 0 <= label <= 4
IsValid(item) ==
  /\ item.text # <<>>
  /\ item.label >= 0
  /\ item.label <= 2 * 4

validDataOf(data) == SelectSeq(data, IsValid)

\* getTrainingDataSize()
getTrainingDataSize == Len(trainingData)

\* the threshold of train(): at least 10 examples
MinTrainingData == 10

\* a batch of valid examples one short of the threshold of train(), as an
\* extraction or the remote store delivers them
BulkSize == MinTrainingData - 1

Bulk == [i \in 1..BulkSize |-> [text |-> <<"x">>, label |-> 8]]

\* the sizes the model lets the training set reach: MaxTraining examples
\* from small batches besides the bulk batch
HasRoom(data) ==
  IF Len(data) = BulkSize
  THEN Len(trainingData) <= MaxTraining
  ELSE Len(trainingData) + Len(validDataOf(data))
         <= (IF Len(trainingData) >= BulkSize THEN BulkSize ELSE 0) + MaxTraining

\* a value of trainingStatus: a message and the text spliced into it
Status(message, detail) == <<message, detail>>

\* storeTrainingDataInSupabase(data) up to its await: the status is set and
\* the write is under way
storeTrainingDataInSupabase(status, tasks) ==
  IF useSupabase
  THEN [trainingStatus |-> Status("Storing training data in Supabase...", ""),
        pending        |-> tasks \cup {"storeTrainingData"}]
  ELSE [trainingStatus |-> status, pending |-> tasks]

\* addTrainingData(data)
ClassifierAddTrainingData(data) ==
  /\ HasRoom(data)
  /\ trainingData' = trainingData \o validDataOf(data)
  /\ returned' = Len(trainingData')
  /\ lastData' = data
  /\ LET stored == IF useSupabase /\ Len(validDataOf(data)) > 0
                   THEN storeTrainingDataInSupabase(trainingStatus, pending)
                   ELSE [trainingStatus |-> trainingStatus, pending |-> pending]
     IN /\ trainingStatus' = stored.trainingStatus
        /\ pending' = stored.pending
  /\ outcome' = [op |-> "addTrainingData"]
  /\ UNCHANGED <<model, isModelReady, useSupabase, trainPc, fit>>

\* addTrainingData(data) called on the classifier directly: the App is left alone
AddTrainingData(data) ==
  /\ ClassifierAddTrainingData(data)
  /\ UNCHANGED <<textVars, extractorVars, app>>

\* the one-hot encoding train() makes of a label: Array(5).fill(0), then
\* label[item.label] = 1.  A number that is no array index names a property
\* of the array and leaves its five elements 0.
oneHot(label) == [i \in 1..5 |-> IF label = 2 * (i - 1) THEN 1 ELSE 0]

----------------------------------------------------------------------------
(* AuthoritarianClassifier: the model, train() and predict().              *)
(*                                                                         *)
(* A model is described by the units of its dense layers, the number of    *)
(* fits it went through and whether stored weights were loaded into it.    *)
(* Every call into TensorFlow.js may throw and every call into the remote  *)
(* store may fail: each is an input of the action that makes it.           *)

\* the bound on the fits counted on one model
MaxFits == 1

\* the defaults of train(epochs = 3, batchSize = 8) and its two caps
DefaultEpochs == 3

DefaultBatchSize == 8

EpochsCap == 5

BatchSizeCap == 4

\* the model buildModel makes: dense 32, dropout, dense 16, dense 5
MainModel == [built |-> TRUE, layers |-> <<32, 16, 5>>, fits |-> 0, loaded |-> FALSE]

\* variant of SimpleModel: the fallback has the layers of the main model
SimpleModelAsMain == [built |-> TRUE, layers |-> <<32, 16, 5>>, fits |-> 0, loaded |-> FALSE]

\* the model buildSimpleModel makes: dense 10, dense 5
SimpleModel == [built |-> TRUE, layers |-> <<10, 5>>, fits |-> 0, loaded |-> FALSE]

\* variant of buildSimpleModel: the catch drops the model and leaves the
\* ready flag set
buildSimpleModelLeavesReady(tfOk) ==
  IF tfOk THEN [model |-> SimpleModel, isModelReady |-> TRUE]
  ELSE [model |-> Null, isModelReady |-> TRUE]

\* buildSimpleModel(): the fallback model, or no model when TensorFlow.js
\* throws while it is made
buildSimpleModel(tfOk) ==
  IF tfOk THEN [model |-> SimpleModel, isModelReady |-> TRUE]
  ELSE [model |-> Null, isModelReady |-> FALSE]

\* buildModel() up to the await of loadModelFromSupabase: the main model and
\* the load of stored weights started, or the fallback on a throw
buildModel(mainOk, simpleOk, status, tasks) ==
  IF mainOk
  THEN [model |-> MainModel, isModelReady |-> TRUE,
        trainingStatus |-> IF useSupabase
                           THEN Status("Loading model from Supabase...", "")
                           ELSE status,
        pending |-> IF useSupabase THEN tasks \cup {"loadModel"} ELSE tasks]
  ELSE [model |-> buildSimpleModel(simpleOk).model,
        isModelReady |-> buildSimpleModel(simpleOk).isModelReady,
        trainingStatus |-> status,
        pending |-> tasks]

\* the argument lists of train(): none, epochs, epochs and batchSize
TrainArgs == {<<>>, <<5, 4>>, <<6, 2>>}

epochsOf(args) == IF Len(args) >= 1 THEN args[1] ELSE DefaultEpochs

batchSizeOf(args) == IF Len(args) >= 2 THEN args[2] ELSE DefaultBatchSize

\* the catch of train(): the fallback model is built, the status and the
\* error thrown carry the message of the cause
TrainingFailed(cause, fallbackOk) ==
  /\ model' = buildSimpleModel(fallbackOk).model
  /\ isModelReady' = buildSimpleModel(fallbackOk).isModelReady
  /\ trainingStatus' = Status("Training failed: ", cause)
  /\ outcome' = [op |-> "train", threw |-> TRUE,
                 message |-> <<"Training failed: ", cause>>]
  /\ trainPc' = "idle"
  /\ fit' = NoFit

\* variant of EnoughData: one example less is enough
EnoughDataFrom9(n) == n >= MinTrainingData - 1

\* the test of line 984, negated
EnoughData(n) == ~(n < MinTrainingData)

\* variant of ActualEpochs: the cap applied upward as well
ActualEpochsAlwaysCap(epochs) == EpochsCap

\* Math.min(epochs, 5)
ActualEpochs(epochs) == Min2(epochs, EpochsCap)

\* Math.min(batchSize, 4)
ActualBatchSize(batchSize) == Min2(batchSize, BatchSizeCap)

\* variant of NeedsRebuild: the model is rebuilt at every call
NeedsRebuildAlways(m, ready) == TRUE

\* the test of line 977: there is no model or it is not ready
NeedsRebuild(m, ready) == ~m.built \/ ~ready

\* the messages of the two errors train() throws before its try block
NotInitialized == <<"Model not initialized. Please rebuild the model.", "">>

NotEnough == <<"Not enough training data. Need at least 10 examples.", "">>

\* train(epochs, batchSize) from its start to the await of this.model.fit,
\* or to the throw that ends it before.  A call starts when no other is in
\* flight: the one caller, trainModel of App, disables its trigger for the
\* time of a call (lines 142, 153 and 661).
TrainBegin(args, mainOk, simpleOk, tensorsOk, fallbackOk) ==
  /\ trainPc = "idle"
  /\ LET b == IF NeedsRebuild(model, isModelReady)
              THEN buildModel(mainOk, simpleOk, trainingStatus, pending)
              ELSE [model |-> model, isModelReady |-> isModelReady,
                    trainingStatus |-> trainingStatus, pending |-> pending]
     IN /\ pending' = b.pending
        /\ IF ~b.model.built
           THEN /\ model' = b.model
                /\ isModelReady' = b.isModelReady
                /\ trainingStatus' = b.trainingStatus
                /\ outcome' = [op |-> "train", threw |-> TRUE,
                               message |-> NotInitialized]
                /\ UNCHANGED <<trainPc, fit>>
           ELSE IF ~EnoughData(Len(trainingData))
           THEN /\ model' = b.model
                /\ isModelReady' = b.isModelReady
                /\ trainingStatus' = b.trainingStatus
                /\ outcome' = [op |-> "train", threw |-> TRUE,
                               message |-> NotEnough]
                /\ UNCHANGED <<trainPc, fit>>
           ELSE IF ~tensorsOk
           THEN TrainingFailed("tensor2d", fallbackOk)
           ELSE /\ model' = b.model
                /\ isModelReady' = b.isModelReady
                /\ trainingStatus' = Status("Training model with examples...", "")
                /\ fit' = [data      |-> trainingData,
                           epochs    |-> ActualEpochs(epochsOf(args)),
                           batchSize |-> ActualBatchSize(batchSizeOf(args))]
                /\ trainPc' = "fitting"
                /\ outcome' = [op |-> "train", threw |-> FALSE,
                               message |-> <<"in flight", "">>]
  /\ lastData' = <<>>
  /\ returned' = 0
  /\ UNCHANGED <<textVars, extractorVars, app, trainingData, useSupabase>>

\* the part of train() from the test of line 984 to the await of
\* this.model.fit, run on the training set as it is when the test is made:
\* started is the training set as it was when train() was called
TrainPrepare(started, epochs, batchSize, tensorsOk, fallbackOk) ==
  IF ~EnoughData(Len(trainingData))
  THEN /\ outcome' = [op |-> "train", threw |-> TRUE, message |-> NotEnough]
       /\ trainPc' = "idle"
       /\ fit' = NoFit
       /\ UNCHANGED <<model, isModelReady, trainingStatus>>
  ELSE IF ~tensorsOk
  THEN TrainingFailed("tensor2d", fallbackOk)
  ELSE /\ trainingStatus' = Status("Training model with examples...", "")
       /\ fit' = [data |-> trainingData, epochs |-> epochs,
                  batchSize |-> batchSize, started |-> started]
       /\ trainPc' = "fitting"
       /\ outcome' = [op |-> "train", threw |-> FALSE,
                      message |-> <<"in flight", "">>]
       /\ UNCHANGED <<model, isModelReady>>

\* train(epochs, batchSize) from its call to its first await.  With no
\* model or a model not ready, buildModel() runs and train() is suspended
\* at line 978: await this.buildModel() hands control back to the caller of
\* train() although buildModel itself awaits nothing, and the rest of
\* train() runs in a later microtask.  Otherwise train() goes on to the
\* await of this.model.fit.
ClassifierTrainCall(args, mainOk, simpleOk, tensorsOk, fallbackOk) ==
  /\ trainPc = "idle"
  /\ IF NeedsRebuild(model, isModelReady)
     THEN LET b == buildModel(mainOk, simpleOk, trainingStatus, pending)
          IN /\ model' = b.model
             /\ isModelReady' = b.isModelReady
             /\ pending' = b.pending
             /\ trainingStatus' = b.trainingStatus
             /\ trainPc' = "rebuilt"
             /\ fit' = [data |-> <<>>,
                        epochs |-> ActualEpochs(epochsOf(args)),
                        batchSize |-> ActualBatchSize(batchSizeOf(args)),
                        started |-> trainingData]
             /\ outcome' = [op |-> "train", threw |-> FALSE,
                            message |-> <<"in flight", "">>]
     ELSE /\ TrainPrepare(trainingData, ActualEpochs(epochsOf(args)),
                          ActualBatchSize(batchSizeOf(args)), tensorsOk, fallbackOk)
          /\ UNCHANGED pending
  /\ lastData' = <<>>
  /\ returned' = 0
  /\ UNCHANGED <<trainingData, useSupabase>>

\* train() called on the classifier directly: the App is left alone
TrainCall(args, mainOk, simpleOk, tensorsOk, fallbackOk) ==
  /\ ClassifierTrainCall(args, mainOk, simpleOk, tensorsOk, fallbackOk)
  /\ UNCHANGED <<textVars, extractorVars, app>>

\* train() resumed after the await of line 978: the test of line 979, then
\* the rest of train() on the training set as it is now
ClassifierTrainRebuilt(tensorsOk, fallbackOk) ==
  /\ trainPc = "rebuilt"
  /\ IF ~model.built
     THEN /\ outcome' = [op |-> "train", threw |-> TRUE, message |-> NotInitialized]
          /\ trainPc' = "idle"
          /\ fit' = NoFit
          /\ UNCHANGED <<model, isModelReady, trainingStatus>>
     ELSE TrainPrepare(fit.started, fit.epochs, fit.batchSize, tensorsOk, fallbackOk)
  /\ UNCHANGED <<trainingData, lastData, returned,
                 useSupabase, pending>>

\* the resumption of train() called on the classifier directly: the App is left alone
TrainRebuilt(tensorsOk, fallbackOk) ==
  /\ ClassifierTrainRebuilt(tensorsOk, fallbackOk)
  /\ UNCHANGED <<textVars, extractorVars, app>>

\* variant of saveGuarded: an error in saveModelToSupabase reaches train()
saveUnguarded(ok) == ~ok

\* whether saveModelToSupabase throws when encoding or storing the weights
\* goes through (ok) or fails: its try/catch of lines 848-863 lets nothing out
saveGuarded(ok) == FALSE

\* this.model.fit settles.  Resolved: the model went through one more fit
\* and, with the remote store in use, saveModelToSupabase starts; otherwise
\* train() returns the history.  Rejected: the catch of train().
ClassifierTrainFit(fitOk, encodeOk, fallbackOk) ==
  /\ trainPc = "fitting"
  /\ IF ~fitOk
     THEN TrainingFailed("fit", fallbackOk)
     ELSE IF useSupabase /\ saveGuarded(encodeOk)
     THEN TrainingFailed("encodeWeights", fallbackOk)
     ELSE /\ model' = [model EXCEPT !.fits = Min2(MaxFits, @ + 1)]
          /\ UNCHANGED isModelReady
          /\ IF useSupabase /\ encodeOk
             THEN /\ trainingStatus' = Status("Saving model to Supabase...", "")
                  /\ trainPc' = "saving"
                  /\ UNCHANGED <<outcome, fit>>
             ELSE /\ trainingStatus' = Status("Model trained successfully", "")
                  /\ trainPc' = "idle"
                  /\ fit' = NoFit
                  /\ outcome' = [op |-> "train", threw |-> FALSE,
                                 message |-> <<"history", "">>,
                                 saved |-> FALSE]
  /\ UNCHANGED <<trainingData, lastData, returned, useSupabase, pending>>

\* the settling of the fit called on the classifier directly: the App is left alone
TrainFit(fitOk, encodeOk, fallbackOk) ==
  /\ ClassifierTrainFit(fitOk, encodeOk, fallbackOk)
  /\ UNCHANGED <<textVars, extractorVars, app>>

\* mlStorage.storeModelWeights settles, either way: saveModelToSupabase
\* sets its status, then train() sets its own and returns the history
ClassifierTrainSaved(stored, fallbackOk) ==
  /\ trainPc = "saving"
  /\ IF saveGuarded(stored)
     THEN TrainingFailed("storeModelWeights", fallbackOk)
     ELSE /\ trainingStatus' = Status("Model trained successfully", "")
          /\ trainPc' = "idle"
          /\ fit' = NoFit
          /\ outcome' = [op |-> "train", threw |-> FALSE,
                         message |-> <<"history", "">>, saved |-> stored]
          /\ UNCHANGED <<model, isModelReady>>
  /\ UNCHANGED <<trainingData, lastData, returned,
                 useSupabase, pending>>

\* the settling of the save called on the classifier directly: the App is left alone
TrainSaved(stored, fallbackOk) ==
  /\ ClassifierTrainSaved(stored, fallbackOk)
  /\ UNCHANGED <<textVars, extractorVars, app>>

\* the outputs of the model's forward pass: five probabilities in tenths
Outputs ==
  { <<10, 0, 0, 0, 0>>, <<1, 4, 4, 1, 0>>, <<0, 1, 2, 3, 4>> }

\* the prediction returned when there is no usable model or the pass throws
NeutralPrediction ==
  [notAuthoritarian |-> 10, indicator1 |-> 0, indicator2 |-> 0,
   indicator3 |-> 0, indicator4 |-> 0, predictedClass |-> 0]

\* Math.max(...predictionData)
MaxOf(out) == CHOOSE m \in Range(out) : \A x \in Range(out) : x <= m

\* variant of indexOf: the last position of the value
lastIndexOf(out, value) ==
  (CHOOSE i \in 1..Len(out) :
     out[i] = value /\ \A j \in (i + 1)..Len(out) : out[j] # value) - 1

\* predictionData.indexOf(value), 0-based: the first position of the value
indexOf(out, value) ==
  (CHOOSE i \in 1..Len(out) :
     out[i] = value /\ \A j \in 1..(i - 1) : out[j] # value) - 1

\* the object predict() builds from predictionData
PredictionOf(out) ==
  [notAuthoritarian |-> out[1], indicator1 |-> out[2], indicator2 |-> out[3],
   indicator3 |-> out[4], indicator4 |-> out[5],
   predictedClass |-> indexOf(out, MaxOf(out))]

\* variant of Guarded: the error of the forward pass reaches the caller
Unguarded(out, tfOk) ==
  IF tfOk THEN [threw |-> FALSE, result |-> PredictionOf(out)]
  ELSE [threw |-> TRUE, result |-> NeutralPrediction]

\* the try/catch of predict() around tf.tidy
Guarded(out, tfOk) ==
  IF tfOk THEN [threw |-> FALSE, result |-> PredictionOf(out)]
  ELSE [threw |-> FALSE, result |-> NeutralPrediction]

\* the test of line 1076, negated: there is a model and it is ready
Usable(m, ready) == ~(~m.built \/ ~ready)

\* predict(text): out is what the forward pass on the vector of the text
\* gives, tfOk whether TensorFlow.js got through it
ClassifierPredict(out, tfOk) ==
  /\ outcome' =
       IF ~Usable(model, isModelReady)
       THEN [op |-> "predict", ran |-> FALSE, outputs |-> <<>>,
             threw |-> FALSE, result |-> NeutralPrediction]
       ELSE [op |-> "predict", ran |-> TRUE,
             outputs |-> IF tfOk THEN out ELSE <<>>,
             threw |-> Guarded(out, tfOk).threw,
             result |-> Guarded(out, tfOk).result]
  /\ lastData' = <<>>
  /\ returned' = 0
  /\ UNCHANGED <<trainingData, model, isModelReady, trainingStatus,
                 useSupabase, trainPc, fit, pending>>

\* predict(text) called on the classifier directly: the App is left alone
Predict(out, tfOk) ==
  /\ ClassifierPredict(out, tfOk)
  /\ UNCHANGED <<textVars, extractorVars, app>>

\* what mlStorage.getLatestModelWeights can deliver (null also on an error)
StoredWeights == {"weights", "mismatch", "none"}

\* loadModelFromSupabase() after its await: weights are set on the current
\* model; no model or weights of another shape make setWeights throw
LoadModelSettled(got) ==
  /\ "loadModel" \in pending
  /\ pending' = pending \ {"loadModel"}
  /\ IF got = "none"
     THEN /\ trainingStatus' = Status("No model found in Supabase", "")
          /\ UNCHANGED model
     ELSE IF got = "weights" /\ model.built
     THEN /\ model' = [model EXCEPT !.loaded = TRUE]
          /\ trainingStatus' = Status("Model loaded from Supabase successfully", "")
     ELSE /\ trainingStatus' = Status("Failed to load model from Supabase", "")
          /\ UNCHANGED model
  /\ UNCHANGED <<textVars, extractorVars, app, trainingData, lastData, returned, isModelReady,
                 useSupabase, trainPc, fit, outcome>>

\* what mlStorage.getTrainingData can deliver ([] also on an error)
StoredTrainingData == {<<>>, Bulk}

\* loadTrainingDataFromSupabase() after its await: the examples read are
\* handed to addTrainingData
LoadTrainingDataSettled(data) ==
  /\ "loadTrainingData" \in pending
  /\ IF Len(data) > 0
     THEN /\ HasRoom(data)
          /\ trainingData' = trainingData \o validDataOf(data)
          /\ trainingStatus' = Status("Loaded training examples from Supabase", "")
          /\ pending' = storeTrainingDataInSupabase(trainingStatus,
                          pending \ {"loadTrainingData"}).pending
     ELSE /\ trainingStatus' = Status("No training data found in Supabase", "")
          /\ pending' = pending \ {"loadTrainingData"}
          /\ UNCHANGED trainingData
  /\ UNCHANGED <<textVars, extractorVars, app, lastData, returned, model, isModelReady, useSupabase,
                 trainPc, fit, outcome>>

\* storeTrainingDataInSupabase() after its await
StoreTrainingDataSettled(stored) ==
  /\ "storeTrainingData" \in pending
  /\ pending' = pending \ {"storeTrainingData"}
  /\ trainingStatus' =
       IF stored THEN Status("Training data stored in Supabase successfully", "")
       ELSE Status("Failed to store training data in Supabase", "")
  /\ UNCHANGED <<textVars, extractorVars, app, trainingData, lastData, returned, model, isModelReady,
                 useSupabase, trainPc, fit, outcome>>

\* the batches handed to addTrainingData beside train() and predict(): one
\* example and the bulk batch
Deliveries == { << [text |-> <<"x">>, label |-> 8] >>, Bulk }

\* new AuthoritarianClassifier(): the field initialisers, then buildModel()
\* and, with the remote store configured, the load of the stored examples
Init ==
  /\ text = <<>>
  /\ pc = "call"
  /\ analysis = <<>>
  /\ sentiment = Zero
  /\ vector = <<>>
  /\ trainingData = <<>>
  /\ lastData = <<>>
  /\ returned = 0
  /\ useSupabase \in BOOLEAN
  /\ \E mainOk, simpleOk \in BOOLEAN :
       LET b == buildModel(mainOk, simpleOk, Status("", ""), {})
       IN /\ model = b.model
          /\ isModelReady = b.isModelReady
          /\ trainingStatus =
               IF useSupabase
               THEN Status("Loading training data from Supabase...", "")
               ELSE b.trainingStatus
          /\ pending =
               IF useSupabase THEN b.pending \cup {"loadTrainingData"} ELSE b.pending
  /\ trainPc = "idle"
  /\ fit = NoFit
  /\ outcome = NoOutcome
  /\ ExtractorInitialisers
  /\ app = NoApp

Next ==
  \/ \E data \in Deliveries : AddTrainingData(data)
  \/ \E args \in TrainArgs, mainOk, simpleOk, tensorsOk, fallbackOk \in BOOLEAN :
       TrainBegin(args, mainOk, simpleOk, tensorsOk, fallbackOk)
  \/ \E fitOk, encodeOk, fallbackOk \in BOOLEAN : TrainFit(fitOk, encodeOk, fallbackOk)
  \/ \E stored, fallbackOk \in BOOLEAN : TrainSaved(stored, fallbackOk)
  \/ \E out \in Outputs, tfOk \in BOOLEAN : Predict(out, tfOk)
  \/ \E got \in StoredWeights : LoadModelSettled(got)
  \/ \E data \in StoredTrainingData : LoadTrainingDataSettled(data)
  \/ \E stored \in BOOLEAN : StoreTrainingDataSettled(stored)

Spec == Init /\ [][Next]_vars

\* the classifier under addTrainingData calls alone, with every batch of at
\* most MaxBatch examples
NextTrainingSet == \E data \in Batches : AddTrainingData(data)

SpecTrainingSet == Init /\ [][NextTrainingSet]_vars

\* the classifier under addTrainingData and train() with the suspension of
\* train() at line 978 as a step of its own: what is called or settles
\* between the call and the resumption sees train() suspended
NextSnapshot ==
  \/ \E data \in Deliveries : AddTrainingData(data)
  \/ \E mainOk, simpleOk, tensorsOk, fallbackOk \in BOOLEAN :
       TrainCall(<<>>, mainOk, simpleOk, tensorsOk, fallbackOk)
  \/ \E tensorsOk, fallbackOk \in BOOLEAN : TrainRebuilt(tensorsOk, fallbackOk)
  \/ \E fitOk, encodeOk, fallbackOk \in BOOLEAN : TrainFit(fitOk, encodeOk, fallbackOk)
  \/ \E stored, fallbackOk \in BOOLEAN : TrainSaved(stored, fallbackOk)
  \/ \E stored \in BOOLEAN : StoreTrainingDataSettled(stored)

SpecSnapshot == Init /\ [][NextSnapshot]_vars

----------------------------------------------------------------------------
(* App: the handlers that call the classifier.                             *)
(*                                                                         *)
(* Of the state of the component the model keeps trainingDataSize,         *)
(* isTraining and mlPrediction.  A handler is one step up to its first     *)
(* await; what follows the await of classifier.train() in trainModel runs  *)
(* in the step in which train() settles.  The input text of an analysis is *)
(* not empty, and the examples the extractor hands over are an input.      *)

\* the size from which analyzeTextAdvanced asks for a prediction is above
\* this number (line 178)
PredictionAbove == 10

\* the test of line 178
PredictionGate(size) == size > PredictionAbove

\* the Train Model button is disabled (line 661)
TrainDisabled == app.trainingDataSize < MinTrainingData \/ app.isTraining

\* the end of trainModel once train() has settled: the finally of line 153,
\* and whether train() returned its history
TrainModelSettled ==
  app' = [app EXCEPT !.isTraining = (trainPc' # "idle"),
                     !.trained = @ \/ (trainPc' = "idle" /\ ~outcome'.threw)]

\* extractTrainingData of App, lines 117-137, when the extractor returns
\* the examples data: they are added and the new size is kept
AppExtractTrainingData(data) ==
  /\ Len(data) > 0
  /\ ClassifierAddTrainingData(data)
  /\ app' = [app EXCEPT !.trainingDataSize = returned']
  /\ UNCHANGED <<textVars, extractorVars>>

\* a click on Train Model: trainModel, lines 140-155, up to the first await
\* of train()
AppTrainModel(mainOk, simpleOk, tensorsOk, fallbackOk) ==
  /\ ~TrainDisabled
  /\ ClassifierTrainCall(<<>>, mainOk, simpleOk, tensorsOk, fallbackOk)
  /\ TrainModelSettled
  /\ UNCHANGED <<textVars, extractorVars>>

\* train() resumes after its rebuild, under trainModel
AppTrainRebuilt(tensorsOk, fallbackOk) ==
  /\ ClassifierTrainRebuilt(tensorsOk, fallbackOk)
  /\ TrainModelSettled
  /\ UNCHANGED <<textVars, extractorVars>>

\* the fit settles, under trainModel
AppTrainFit(fitOk, encodeOk, fallbackOk) ==
  /\ ClassifierTrainFit(fitOk, encodeOk, fallbackOk)
  /\ TrainModelSettled
  /\ UNCHANGED <<textVars, extractorVars>>

\* the save settles, under trainModel
AppTrainSaved(stored, fallbackOk) ==
  /\ ClassifierTrainSaved(stored, fallbackOk)
  /\ TrainModelSettled
  /\ UNCHANGED <<textVars, extractorVars>>

\* a click on Analyze, whose only condition is a text that is not blank
\* (line 345): analyzeTextAdvanced, lines 158-186
AppAnalyze(out, tfOk) ==
  /\ IF PredictionGate(app.trainingDataSize)
     THEN /\ ClassifierPredict(out, tfOk)
          /\ app' = [app EXCEPT !.mlPrediction = <<outcome'.result>>]
     ELSE /\ app' = [app EXCEPT !.mlPrediction = <<>>]
          /\ UNCHANGED classifierVars
  /\ UNCHANGED <<textVars, extractorVars>>

\* resetAnalysis, lines 189-197
AppResetAnalysis ==
  /\ app' = [app EXCEPT !.mlPrediction = <<>>]
  /\ UNCHANGED <<textVars, classifierVars, extractorVars>>

\* the App with its one classifier: the clicks and what settles
NextApp ==
  \/ \E data \in Deliveries : AppExtractTrainingData(data)
  \/ \E mainOk, simpleOk, tensorsOk, fallbackOk \in BOOLEAN :
       AppTrainModel(mainOk, simpleOk, tensorsOk, fallbackOk)
  \/ \E tensorsOk, fallbackOk \in BOOLEAN : AppTrainRebuilt(tensorsOk, fallbackOk)
  \/ \E fitOk, encodeOk, fallbackOk \in BOOLEAN : AppTrainFit(fitOk, encodeOk, fallbackOk)
  \/ \E stored, fallbackOk \in BOOLEAN : AppTrainSaved(stored, fallbackOk)
  \/ \E out \in Outputs, tfOk \in BOOLEAN : AppAnalyze(out, tfOk)
  \/ AppResetAnalysis
  \/ \E got \in StoredWeights : LoadModelSettled(got)
  \/ \E data \in StoredTrainingData : LoadTrainingDataSettled(data)
  \/ \E stored \in BOOLEAN : StoreTrainingDataSettled(stored)

SpecApp == Init /\ [][NextApp]_vars

----------------------------------------------------------------------------
(* PDFExtractor: loadPDF, extractText and extractTrainingData.             *)
(*                                                                         *)
(* A document is the sequence of the texts pdf.js gives for its pages.     *)
(* extractText is suspended at the load of the document, at the            *)
(* Promise.all of a batch of pages, at the timer after a batch and at the  *)
(* store of the text; extractTrainingData runs in one piece.               *)

\* the pages processed before extractText pauses
BATCH_SIZE == 3

\* a paragraph is processed when its trimmed length exceeds 50
ParagraphMin == 50

\* a sentence is skipped when its trimmed length is below 20
SentenceMin == 20

\* Math.random() < 0.1 is drawn for sentences up to this position
MaxDraws == 2

\* a processingStatus: the message and the two numbers interpolated into it
PStatus(message, a, b) == <<message, a, b>>

\* the separator of pageTexts.join
PageSeparator == <<"\n", "\n">>

\* the text extractPageText returns when pdf.js fails on a page
ErrorPage(pageNum) ==
  <<"[","E","r","r","o","r"," ","e","x","t","r","a","c","t","i","n","g"," ",
    "p","a","g","e"," ">> \o <<DigitChar[pageNum + 1], "]">>

LongPage ==
  << "T", "h", "e", " ", "M", "i", "l", "i", "t", "a", "r", "y", " ", "t",
       "o", "o", "k", " ", "h", "o", "l", "d", " ", "o", "f", " ", "t", "h",
       "e", " ", "s", "t", "a", "t", "i", "o", "n", "!", " ", "W", "e", " ",
       "w", "a", "l", "k", "e", "d", " ", "b", "y", " ", "a", " ", "q", "u",
       "i", "e", "t", " ", "l", "a", "k", "e", ".", " ", "Y", "e", "s", " ",
       "i", "t", " ", "i", "s", ".", " ", "T", "h", "e", " ", "e", "n", "e",
       "m", "y", " ", "u", "s", "e", "d", " ", "f", "o", "r", "c", "e", " ",
       "h", "e", "r", "e", "?", " ", "a", "n", "d", " ", "t", "h", "e", "n" >>

ShortPage ==
  << "T", "h", "e", "y", " ", "c", "e", "n", "s", "o", "r", " ", "t", "h",
       "e", " ", "p", "r", "e", "s", "s", "." >>

NoStopPage ==
  << "w", "e", " ", "w", "a", "l", "k", "e", "d", " ", "b", "y", " ", "a",
       " ", "q", "u", "i", "e", "t", " ", "l", "a", "k", "e", " ", "a", "n",
       "d", " ", "t", "h", "e", "n", " ", "w", "e", " ", "w", "a", "l", "k",
       "e", "d", " ", "b", "y", " ", "a", " ", "h", "i", "l", "l" >>

BlankPage ==
  << " ", "\n" >>

\* the document loaded: four pages, which extractText reads in two batches
Documents == { <<ShortPage, BlankPage, LongPage, NoStopPage>> }

\* the arguments of extractText(startPage = 1, endPage?): every page, the
\* blank page, the long page, and a start beyond the end
ExtractArgs == { <<>>, <<2, 2>>, <<3, 3>>, <<4, 2>> }

startPageOf(args) == IF Len(args) >= 1 THEN args[1] ELSE 1

\* endPage, 0 standing for undefined: endPage || this.numPages treats both alike
endPageOf(args) == IF Len(args) >= 2 THEN args[2] ELSE 0

\* the page on which pdf.js fails in a batch, 0 for none
FailingPages == {0, 3}

\* loadPDF(file): pdfData is set, then pdf.js opens the document and
\* numPages is set; a file pdf.js cannot open leaves numPages as it was and
\* rejects
LoadPDF(doc, readable) ==
  /\ pdf' = [data |-> IF readable THEN doc ELSE <<>>,
             loaded |-> TRUE,
             corrupt |-> ~readable,
             numPages |-> IF readable THEN Len(doc) ELSE pdf.numPages]
  /\ extraction' = [op |-> "loadPDF", threw |-> ~readable]
  /\ UNCHANGED <<textVars, classifierVars, app, extractedText, processingStatus,
                 extractedTextId, extractPc>>

\* extractText(startPage, endPage) up to the await of the document, or the
\* throw when no file was loaded.  A call starts when none is in flight:
\* App disables its trigger while processingPages is set (line 606).
ExtractTextBegin(args) ==
  /\ extractPc.at = "idle"
  /\ IF ~pdf.loaded
     THEN /\ extraction' = [op |-> "extractText", threw |-> TRUE,
                            message |-> "No PDF loaded", result |-> <<>>]
          /\ UNCHANGED extractPc
     ELSE /\ extractPc' = [at |-> "document", startPageNum |-> startPageOf(args),
                           maxPage |-> endPageOf(args), batch |-> 0,
                           text |-> <<>>, doc |-> pdf.data,
                           corrupt |-> pdf.corrupt]
          /\ extraction' = [op |-> "extractText", threw |-> FALSE,
                            message |-> "in flight", result |-> <<>>]
  /\ UNCHANGED <<textVars, classifierVars, app, pdf, extractedText, processingStatus,
                 extractedTextId>>

\* variant of batchStartOf: a batch starts on the last page of the one before
batchStartOverlapping(frame) == frame.startPageNum + frame.batch * (BATCH_SIZE - 1)

\* the first and the last page of a batch
batchStartOf(frame) == frame.startPageNum + frame.batch * BATCH_SIZE

batchEndOf(frame) == Min2(batchStartOf(frame) + BATCH_SIZE - 1, frame.maxPage)

\* Math.ceil((maxPage - startPageNum + 1) / BATCH_SIZE)
totalBatchesOf(frame) ==
  (frame.maxPage - frame.startPageNum + 1 + BATCH_SIZE - 1) \div BATCH_SIZE

\* the outer catch of extractText: the status is cleared, the error rethrown
ExtractTextFailed(message) ==
  /\ processingStatus' = PStatus("", 0, 0)
  /\ extractPc' = NoExtract
  /\ extraction' = [op |-> "extractText", threw |-> TRUE,
                    message |-> message, result |-> <<>>]

\* the document is open: the page range is worked out and the pages of the
\* first batch are asked for
ExtractTextDocument ==
  /\ extractPc.at = "document"
  /\ LET wanted == IF extractPc.maxPage # 0 THEN extractPc.maxPage ELSE pdf.numPages
         frame == [extractPc EXCEPT !.maxPage = Min2(wanted, pdf.numPages),
                                    !.startPageNum = Max2(1, extractPc.startPageNum),
                                    !.at = "pages"]
     IN IF extractPc.corrupt
        THEN ExtractTextFailed("Invalid PDF structure")
        ELSE IF frame.startPageNum > frame.maxPage
        THEN ExtractTextFailed("Start page cannot be greater than end page")
        ELSE /\ extractPc' = frame
             /\ processingStatus' =
                  PStatus("Processing page of", batchEndOf(frame), frame.maxPage)
             /\ UNCHANGED extraction
  /\ UNCHANGED <<textVars, classifierVars, app, pdf, extractedText, extractedTextId>>

\* the text of a page as extractPageText returns it
pageTextOf(frame, pageNum, failing) ==
  IF pageNum = failing \/ pageNum > Len(frame.doc)
  THEN ErrorPage(pageNum)
  ELSE frame.doc[pageNum]

RECURSIVE join(_, _)
\* Array.prototype.join
join(texts, separator) ==
  IF texts = <<>> THEN <<>>
  ELSE IF Len(texts) = 1 THEN texts[1]
  ELSE texts[1] \o separator \o join(Tail(texts), separator)

\* variant of batchTextOf: the pages are joined with nothing between them
batchTextGlued(frame, failing) ==
  join([k \in 1..(batchEndOf(frame) - batchStartOf(frame) + 1) |->
          pageTextOf(frame, batchStartOf(frame) + k - 1, failing)],
       <<>>)

\* pageTexts.join('\n\n') for the batch in hand
batchTextOf(frame, failing) ==
  join([k \in 1..(batchEndOf(frame) - batchStartOf(frame) + 1) |->
          pageTextOf(frame, batchStartOf(frame) + k - 1, failing)],
       PageSeparator)

\* Promise.all of the batch settles: the texts of its pages are appended
\* and the timer of 200 ms is started
ExtractTextPages(failing) ==
  /\ extractPc.at = "pages"
  /\ extractPc' = [extractPc EXCEPT !.text = @ \o batchTextOf(extractPc, failing),
                                    !.at = "pause"]
  /\ UNCHANGED <<textVars, classifierVars, app, pdf, extractedText, processingStatus,
                 extractedTextId, extraction>>

\* variant of returnedAfterStore: a failed store loses the text
returnedOnlyWhenStored(stored, t) == IF stored THEN t ELSE <<>>

\* what extractText returns once the store has settled: the catch of lines
\* 150-153 lets the call go on to its return
returnedAfterStore(stored, t) == t

\* the timer fires: the next batch is asked for, or the text is kept in
\* this.extractedText and, with the remote store configured, its store is
\* started; without it extractText returns the text
ExtractTextPause ==
  /\ extractPc.at = "pause"
  /\ IF extractPc.batch + 1 < totalBatchesOf(extractPc)
     THEN /\ extractPc' = [extractPc EXCEPT !.batch = @ + 1, !.at = "pages"]
          /\ processingStatus' =
               PStatus("Processing page of",
                       batchEndOf([extractPc EXCEPT !.batch = @ + 1]),
                       extractPc.maxPage)
          /\ UNCHANGED <<extractedText, extraction>>
     ELSE /\ extractedText' = extractPc.text
          /\ IF useSupabase
             THEN /\ processingStatus' =
                       PStatus("Storing extracted text in Supabase...", 0, 0)
                  /\ extractPc' = [extractPc EXCEPT !.at = "storing"]
                  /\ UNCHANGED extraction
             ELSE /\ processingStatus' = PStatus("", 0, 0)
                  /\ extractPc' = NoExtract
                  /\ extraction' = [op |-> "extractText", threw |-> FALSE,
                                    message |-> "", result |-> extractPc.text]
  /\ UNCHANGED <<textVars, classifierVars, app, pdf, extractedTextId>>

\* pdfStorage.storeExtractedText settles: the id is kept when it resolved,
\* the status is cleared and extractText returns the text
ExtractTextStored(stored) ==
  /\ extractPc.at = "storing"
  /\ extractedTextId' = IF stored THEN "id" ELSE extractedTextId
  /\ processingStatus' = PStatus("", 0, 0)
  /\ extractPc' = NoExtract
  /\ extraction' = [op |-> "extractText", threw |-> FALSE, message |-> "",
                    result |-> returnedAfterStore(stored, extractPc.text)]
  /\ UNCHANGED <<textVars, classifierVars, app, pdf, extractedText>>

\* the characters that end a sentence: [.!?]
Terminators == {".", "!", "?"}

\* the positions of s inside a match of /\n\s*\n/: those from the first
\* to the last line feed of a run of white space with two line feeds
breakPositions(s) ==
  SelectSeq([i \in 1..Len(s) |-> i],
            LAMBDA i :
              /\ s[i] \in WhiteSpace
              /\ \E p \in 1..i :
                    /\ s[p] = "\n"
                    /\ \E q \in i..Len(s) :
                          /\ s[q] = "\n"
                          /\ p < q
                          /\ \A k \in p..q : s[k] \in WhiteSpace)

\* whether position i of s lies inside a match of /\n\s*\n/
ParagraphBreak(s) ==
  LET inside == breakPositions(s)
  IN [i \in 1..Len(s) |-> \E k \in 1..Len(inside) : inside[k] = i]

\* this.extractedText.split(/\n\s*\n/)
paragraphsOf(s) == SplitRuns(s, ParagraphBreak(s))

\* paragraph.match(/[^.!?]+[.!?]+/g) || []: every run of other characters
\* together with the run of terminators that follows it
sentencesOf(p) ==
  LET positions == [i \in 1..Len(p) |-> i]
      starts == SelectSeq(positions,
                  LAMBDA i : /\ p[i] \notin Terminators
                             /\ (i = 1 \/ p[i - 1] \in Terminators)
                             /\ \E j \in i..Len(p) : p[j] \in Terminators)
      ends   == SelectSeq(positions,
                  LAMBDA i : /\ p[i] \in Terminators
                             /\ (i = Len(p) \/ p[i + 1] \notin Terminators)
                             /\ \E j \in 1..i : p[j] \notin Terminators)
  IN [k \in 1..Len(starts) |-> SubSeq(p, starts[k], ends[k])]

\* String.prototype.includes
Includes(s, k) ==
  \E i \in 0..(Len(s) - Len(k)) : \A j \in 1..Len(k) : s[i + j] = k[j]

\* keyword.toLowerCase() for the keywords of the four indicators
lowerKeywords ==
  [i \in 1..4 |->
     [j \in 1..Len(INDICATORS[i].keywords) |->
        toLowerCase(INDICATORS[i].keywords[j])]]

\* whether the lower-cased sentence contains a keyword of INDICATORS[i - 1]
HasKeyword(lowered, i) ==
  \E j \in 1..Len(lowerKeywords[i]) : Includes(lowered, lowerKeywords[i][j])

\* variant of firstIndicator: the last indicator with a keyword wins
lastIndicator(lowered) ==
  IF HasKeyword(lowered, 4) THEN 4
  ELSE IF HasKeyword(lowered, 3) THEN 3
  ELSE IF HasKeyword(lowered, 2) THEN 2
  ELSE IF HasKeyword(lowered, 1) THEN 1
  ELSE 0

\* the loop of lines 199-209 on sentence.toLowerCase(): the id of the first
\* indicator with a keyword in the sentence, 0 when there is none
firstIndicator(lowered) ==
  IF HasKeyword(lowered, 1) THEN 1
  ELSE IF HasKeyword(lowered, 2) THEN 2
  ELSE IF HasKeyword(lowered, 3) THEN 3
  ELSE IF HasKeyword(lowered, 4) THEN 4
  ELSE 0

\* indicatorId for each of the sentences
indicatorIdsOf(sentences) ==
  [n \in 1..Len(sentences) |-> firstIndicator(toLowerCase(sentences[n]))]

\* variant of candidatesOf: the sentences of every paragraph
candidatesOfEveryParagraph(t) ==
  Flatten([k \in 1..Len(paragraphsOf(t)) |-> sentencesOf(paragraphsOf(t)[k])])

\* the sentences of the paragraphs that are long enough, in order
candidatesOf(t) ==
  LET long == SelectSeq(paragraphsOf(t), LAMBDA p : Len(trim(p)) > ParagraphMin)
  IN Flatten([k \in 1..Len(long) |-> sentencesOf(long[k])])

\* the examples extractTrainingData collects: low holds the positions of
\* the sentences for which Math.random() gives less than 0.1; a label is
\* kept as twice its number
labelled(t, low) ==
  LET c == candidatesOf(t)
      ids == indicatorIdsOf(c)
      kept == SelectSeq([n \in 1..Len(c) |-> n],
                LAMBDA n : /\ ~(Len(trim(c[n])) < SentenceMin)
                           /\ (ids[n] > 0 \/ n \in low))
  IN [k \in 1..Len(kept) |->
        [text |-> trim(c[kept[k]]), label |-> 2 * ids[kept[k]]]]

\* variant of NoTextExtracted: only the empty text counts
NoTextExtractedEmptyOnly(t) == t = <<>>

\* the guard of line 172: !this.extractedText || trim().length === 0
NoTextExtracted(t) == t = <<>> \/ Len(trim(t)) = 0

\* extractTrainingData().  fault: something inside the try throws and the
\* catch of lines 241-245 returns [].  With the remote store configured
\* and examples found, line 229 calls pdfStorage.storeTrainingData, which
\* pdfStorage (lines 351-438) does not have: the TypeError is caught at
\* line 231 before anything is awaited, and the call goes on to its return.
ExtractTrainingData(low, fault) ==
  /\ IF NoTextExtracted(extractedText)
     THEN /\ extraction' = [op |-> "extractTrainingData", threw |-> TRUE,
                            message |-> "No text extracted from PDF",
                            result |-> <<>>]
          /\ UNCHANGED processingStatus
     ELSE /\ processingStatus' = PStatus("", 0, 0)
          /\ extraction' = [op |-> "extractTrainingData", threw |-> FALSE,
                            message |-> "", faulted |-> fault,
                            result |-> IF fault THEN <<>>
                                       ELSE labelled(extractedText, low)]
  /\ UNCHANGED <<textVars, classifierVars, app, pdf, extractedText, extractedTextId,
                 extractPc>>

\* new PDFExtractor(): the field initialisers and isSupabaseConfigured()
InitExtract ==
  /\ text = <<>>
  /\ pc = "call"
  /\ analysis = <<>>
  /\ sentiment = Zero
  /\ vector = <<>>
  /\ ClassifierInitialisers
  /\ useSupabase \in BOOLEAN
  /\ ExtractorInitialisers
  /\ app = NoApp

NextExtract ==
  \/ \E doc \in Documents, readable \in BOOLEAN : LoadPDF(doc, readable)
  \/ \E args \in ExtractArgs : ExtractTextBegin(args)
  \/ ExtractTextDocument
  \/ \E failing \in FailingPages : ExtractTextPages(failing)
  \/ ExtractTextPause
  \/ \E stored \in BOOLEAN : ExtractTextStored(stored)
  \/ \E low \in SUBSET (1..MaxDraws), fault \in BOOLEAN :
       ExtractTrainingData(low, fault)

SpecExtract == InitExtract /\ [][NextExtract]_vars

\* the pages of the documents that are extracted in one batch
Pages == {ShortPage, BlankPage, LongPage, NoStopPage}

\* the extractor after loadPDF and extractText() on a document of at most
\* BATCH_SIZE pages, without the remote store: the text kept is that of
\* the pages, joined
InitLabel ==
  /\ text = <<>>
  /\ pc = "call"
  /\ analysis = <<>>
  /\ sentiment = Zero
  /\ vector = <<>>
  /\ ClassifierInitialisers
  /\ useSupabase = FALSE
  /\ app = NoApp
  /\ \E doc \in UNION { [1..n -> Pages] : n \in 1..BATCH_SIZE } :
       /\ pdf = [data |-> doc, loaded |-> TRUE, corrupt |-> FALSE,
                 numPages |-> Len(doc)]
       /\ extractedText = join(doc, PageSeparator)
       /\ extraction = [op |-> "extractText", threw |-> FALSE, message |-> "",
                        result |-> join(doc, PageSeparator)]
  /\ processingStatus = PStatus("", 0, 0)
  /\ extractedTextId = "null"
  /\ extractPc = NoExtract

\* extractTrainingData() with every outcome of the sampling draws
NextLabel ==
  \E low \in SUBSET (1..MaxDraws), fault \in BOOLEAN : ExtractTrainingData(low, fault)

SpecLabel == InitLabel /\ [][NextLabel]_vars

\* the arguments of extractText for the claim about the pages: none, a
\* start below 1 with an end beyond the last page, one page, a start alone,
\* a start beyond the end and a start beyond the last page
PageArgs == { <<>>, <<0, 9>>, <<2, 2>>, <<2>>, <<4, 2>>, <<5>> }

\* the extractor under loadPDF and extractText calls alone
NextPages ==
  \/ \E doc \in Documents, readable \in BOOLEAN : LoadPDF(doc, readable)
  \/ \E args \in PageArgs : ExtractTextBegin(args)
  \/ ExtractTextDocument
  \/ \E failing \in FailingPages : ExtractTextPages(failing)
  \/ ExtractTextPause
  \/ \E stored \in BOOLEAN : ExtractTextStored(stored)

SpecPages == InitExtract /\ [][NextPages]_vars

\* the operations that write to the remote store, on the classifier and
\* the extractor the App constructs: extractText of the long page,
\* extractTrainingData, addTrainingData and train() with its defaults.
\* The remote store is configured, pdf.js and TensorFlow.js work, and the
\* remote store takes each write or fails it.
InitBestEffort ==
  /\ Init
  /\ useSupabase
  /\ model = MainModel

NextBestEffort ==
  \/ \E doc \in Documents : LoadPDF(doc, TRUE)
  \/ ExtractTextBegin(<<3, 3>>)
  \/ ExtractTextDocument
  \/ ExtractTextPages(0)
  \/ ExtractTextPause
  \/ \E stored \in BOOLEAN : ExtractTextStored(stored)
  \/ ExtractTrainingData({}, FALSE)
  \/ \E data \in Deliveries : AddTrainingData(data)
  \/ TrainBegin(<<>>, TRUE, TRUE, TRUE, TRUE)
  \/ \E encodeOk \in BOOLEAN : TrainFit(TRUE, encodeOk, TRUE)
  \/ \E stored \in BOOLEAN : TrainSaved(stored, TRUE)
  \/ \E stored \in BOOLEAN : StoreTrainingDataSettled(stored)

SpecBestEffort == InitBestEffort /\ [][NextBestEffort]_vars

\* the examples of a batch with a non-empty text and a label from 0 to 4
KeptOf(data) ==
  SelectSeq(data, LAMBDA e : Len(e.text) > 0 /\ 0 <= e.label /\ e.label <= 8)

\* C9: addTrainingData drops the examples with an empty text or a label
\* outside 0..4, appends the others in their order after the examples
\* already held, and returns the new size, which is getTrainingDataSize()
C9_AppendValidExamples ==
  [][ AddTrainingData(lastData') =>
        /\ trainingData' = trainingData \o KeptOf(lastData')
        /\ returned' = Len(trainingData')
        /\ returned' = getTrainingDataSize' ]_vars

\* only {text: "x", label: 5} was added to a non-empty training set, whose
\* size is what the call returned
C9_Witness ==
  /\ lastData = << [text |-> <<"x">>, label |-> 10] >>
  /\ Len(trainingData) = 2
  /\ returned = 2

\* the number of 1s of a vector of 0s and 1s
Ones(v) == Cardinality({i \in 1..Len(v) : v[i] = 1})

\* C10: every example held has one of the integer labels 0, 1, 2, 3, 4, so
\* that its one-hot vector has width 5 and exactly one 1
C10_IntegerLabels ==
  \A n \in 1..Len(trainingData) :
    /\ trainingData[n].label \in {0, 2, 4, 6, 8}
    /\ Len(oneHot(trainingData[n].label)) = 5
    /\ Ones(oneHot(trainingData[n].label)) = 1

----------------------------------------------------------------------------
(* The claims about train() and predict().                                 *)

\* a step that is a train() call running up to its first suspension or throw
TrainStep ==
  /\ trainPc = "idle"
  /\ outcome'.op = "train"
  /\ \E args \in TrainArgs, mainOk, simpleOk, tensorsOk, fallbackOk \in BOOLEAN :
       TrainBegin(args, mainOk, simpleOk, tensorsOk, fallbackOk)

C13_EpochsAndBatchSizeCapped ==
  [][ \A args \in TrainArgs :
        ( /\ trainPc = "idle"
          /\ trainPc' = "fitting"
          /\ \E mainOk, simpleOk, tensorsOk, fallbackOk \in BOOLEAN :
               TrainBegin(args, mainOk, simpleOk, tensorsOk, fallbackOk) ) =>
        LET e == IF Len(args) >= 1 THEN args[1] ELSE 3
            b == IF Len(args) >= 2 THEN args[2] ELSE 8
        IN /\ fit'.epochs = (IF e > 5 THEN 5 ELSE e)
           /\ fit'.batchSize = (IF b > 4 THEN 4 ELSE b)
           /\ args = <<>> => fit'.epochs = 3 /\ fit'.batchSize = 4 ]_vars

\* a fit started by train() with no argument is in flight: 3 epochs, batch
\* size 4, on at least 10 examples
C13_Witness ==
  /\ trainPc = "fitting"
  /\ fit.epochs = 3
  /\ fit.batchSize = 4
  /\ Len(fit.data) >= 10

\* a step in which a train() call ends in its catch: the tensors could not
\* be made, or the fit was rejected
TrainFailStep ==
  /\ outcome'.op = "train"
  /\ outcome'.message[1] = "Training failed: "
  /\ \/ trainPc = "idle" /\ TrainStep
     \/ /\ trainPc = "fitting"
        /\ \E fitOk, encodeOk, fallbackOk \in BOOLEAN :
             TrainFit(fitOk, encodeOk, fallbackOk)

\* C14 as claimed: when train() has at least 10 examples and the data
\* preparation or the fit fails, the model is the fallback model (layers of
\* 10 and 5 units) when the call ends, the call throws an error carrying
\* the message of the cause and the status reports the failure
C14_FailureLeavesFallback ==
  [][ TrainFailStep =>
        /\ model'.built /\ model'.layers = <<10, 5>> /\ model'.fits = 0
        /\ isModelReady'
        /\ outcome'.threw
        /\ outcome'.message[2] = (IF trainPc = "idle" THEN "tensor2d" ELSE "fit")
        /\ trainingStatus' = <<"Training failed: ", outcome'.message[2]>> ]_vars

\* C14 amended: in that case the call throws an error carrying the message
\* of the cause, the status reports the failure, and the model is the
\* fallback model (layers of 10 and 5 units, ready) when TensorFlow.js
\* builds it, but absent with the ready flag clear when building the
\* fallback throws as well; the catch is entered with 10 examples or more
C14_FailureLeavesFallbackOrNothing ==
  [][ TrainFailStep =>
        /\ Len(trainingData) >= 10
        /\ \/ /\ model'.built /\ model'.layers = <<10, 5>> /\ model'.fits = 0
              /\ isModelReady'
           \/ ~model'.built /\ ~isModelReady'
        /\ trainPc' = "idle"
        /\ outcome'.threw
        /\ outcome'.message[2] = (IF trainPc = "idle" THEN "tensor2d" ELSE "fit")
        /\ trainingStatus' = <<"Training failed: ", outcome'.message[2]>> ]_vars

\* a fit was rejected and the fallback model took the place of the model
C14_Witness ==
  /\ outcome.op = "train"
  /\ outcome.threw
  /\ outcome.message = <<"Training failed: ", "fit">>
  /\ trainingStatus = <<"Training failed: ", "fit">>
  /\ model.built /\ model.layers = <<10, 5>>
  /\ isModelReady

\* a step in which a train() call that got past the size check ends
TrainEndStep ==
  /\ outcome'.op = "train"
  /\ trainPc' = "idle"
  /\ \/ TrainStep /\ outcome'.message \notin {NotInitialized, NotEnough}
     \/ /\ trainPc = "fitting"
        /\ \E fitOk, encodeOk, fallbackOk \in BOOLEAN :
             TrainFit(fitOk, encodeOk, fallbackOk)
     \/ /\ trainPc = "saving"
        /\ \E stored, fallbackOk \in BOOLEAN : TrainSaved(stored, fallbackOk)

\* C15: after construction the classifier is ready with a model, or has no
\* model and is not ready (the fallback could not be built); the ready
\* flag is never set while there is no model; every train() call that got
\* past the size check ends ready with a model, or threw with no model and
\* the flag clear; a call that returns normally ends ready with a model
C15_ReadyLifecycle ==
  /\ (model.built /\ isModelReady) \/ (model = Null /\ ~isModelReady)
  /\ [](isModelReady => model.built)
  /\ [][ TrainEndStep =>
           /\ \/ model'.built /\ isModelReady'
              \/ outcome'.threw /\ model' = Null /\ ~isModelReady'
           /\ ~outcome'.threw => model'.built /\ isModelReady' ]_vars

\* a train() call returned normally and left a fitted model, ready
C15_Witness ==
  /\ outcome.op = "train"
  /\ ~outcome.threw
  /\ outcome.message = <<"history", "">>
  /\ trainPc = "idle"
  /\ model.built /\ model.fits = 1
  /\ isModelReady

\* C16: on a classifier on which no train() call has completed, predict
\* returns the neutral prediction for every text.  With fewer than 10
\* examples held no train() call can have completed, the set never shrinks.
C16_NeutralBeforeTraining ==
  (outcome.op = "predict" /\ Len(trainingData) < 10 /\ trainPc = "idle") =>
    outcome.result = [notAuthoritarian |-> 10, indicator1 |-> 0,
                      indicator2 |-> 0, indicator3 |-> 0, indicator4 |-> 0,
                      predictedClass |-> 0]

\* a step that is a predict() call
PredictStep ==
  /\ outcome'.op = "predict"
  /\ \E out \in Outputs, tfOk \in BOOLEAN : Predict(out, tfOk)

\* C17: predict() never throws; with no model or a model that is not ready,
\* and when TensorFlow.js throws in the forward pass, it returns the
\* neutral prediction; it leaves the model, the ready flag and the training
\* set as they were
C17_PredictNeverThrows ==
  [][ PredictStep =>
        /\ ~outcome'.threw
        /\ (~model.built \/ ~isModelReady) => outcome'.result = NeutralPrediction
        /\ \A out \in Outputs :
             Predict(out, FALSE) => outcome'.result = NeutralPrediction
        /\ model' = model
        /\ isModelReady' = isModelReady
        /\ trainingData' = trainingData ]_vars

\* predict() ran the forward pass on a ready model, TensorFlow.js threw and
\* the neutral prediction came back
C17_Witness ==
  /\ outcome.op = "predict"
  /\ outcome.ran
  /\ outcome.outputs = <<>>
  /\ ~outcome.threw
  /\ outcome.result = NeutralPrediction

\* C18: on a ready model whose forward pass went through, predictedClass is
\* the lowest index from 0 to 4 at which the five outputs are largest, and
\* the five probabilities returned are the outputs at indices 0 to 4
C18_FirstArgMax ==
  [][ \A out \in Outputs :
        (model.built /\ isModelReady /\ Predict(out, TRUE)) =>
          LET r == outcome'.result
              k == r.predictedClass
          IN /\ k \in 0..4
             /\ \A j \in 1..5 : out[j] <= out[k + 1]
             /\ \A j \in 1..k : out[j] < out[k + 1]
             /\ <<r.notAuthoritarian, r.indicator1, r.indicator2,
                  r.indicator3, r.indicator4>> = out ]_vars

\* a prediction on outputs whose largest value stands at indices 1 and 2:
\* the class is 1
C18_Witness ==
  /\ outcome.op = "predict"
  /\ outcome.ran
  /\ outcome.outputs = <<1, 4, 4, 1, 0>>
  /\ outcome.result.predictedClass = 1

----------------------------------------------------------------------------
(* The claims about the PDFExtractor and the writes to the remote store.   *)

\* a step that is an extractTrainingData() call: no other step leaves the
\* classifier, the document and the extractText call in flight alone while
\* the latest call on the extractor is extractTrainingData
TrainingDataStep ==
  /\ extraction'.op = "extractTrainingData"
  /\ UNCHANGED <<classifierVars, pdf, extractPc, extractedTextId, extractedText>>

\* whether the text holds none of the characters that end a sentence
NoTerminator(t) == \A i \in 1..Len(t) : t[i] \notin {".", "!", "?"}

\* C19: extractTrainingData rejects when the stored text is empty or white
\* space only; for every other text it returns a list and never rejects:
\* the empty list when the text has no sentence to extract and when the
\* labeling throws
C19_ExtractTrainingDataOutcomes ==
  [][ TrainingDataStep =>
        /\ AllWhite(extractedText) =>
             extraction'.threw /\ extraction'.message = "No text extracted from PDF"
        /\ ~AllWhite(extractedText) =>
             /\ ~extraction'.threw
             /\ \A k \in 1..Len(extraction'.result) :
                  /\ extraction'.result[k].label \in {0, 2, 4, 6, 8}
                  /\ Len(extraction'.result[k].text) >= 20
             /\ NoTerminator(extractedText) => extraction'.result = <<>>
             /\ \A low \in SUBSET (1..MaxDraws) :
                  ExtractTrainingData(low, TRUE) => extraction'.result = <<>> ]_vars

\* extractTrainingData was called on a text of white space only and threw
C19_Witness ==
  /\ extraction.op = "extractTrainingData"
  /\ extraction.threw
  /\ extractedText # <<>>
  /\ AllWhite(extractedText)

\* C20: a failed write to the remote store changes neither the extracted
\* text, the training set, the model nor the ready flag, and the call that
\* made it returns what it returns when the write goes through: extractText
\* the text, extractTrainingData its examples, addTrainingData the new size
\* and train() the history
C20_WritesAreBestEffort ==
  [][ /\ (extractPc.at = "storing" /\ extractPc'.at = "idle") =>
           /\ extractedText' = extractedText
           /\ ~extraction'.threw
           /\ extraction'.result = extractPc.text
           /\ UNCHANGED <<trainingData, model, isModelReady>>
      /\ TrainingDataStep =>
           /\ ~AllWhite(extractedText) => ~extraction'.threw
           /\ (useSupabase /\ ~AllWhite(extractedText)) =>
                extraction'.result = labelled(extractedText, {})
      /\ ("storeTrainingData" \in pending /\ "storeTrainingData" \notin pending') =>
           UNCHANGED <<trainingData, returned, model, isModelReady, extractedText>>
      /\ AddTrainingData(lastData') => returned' = Len(trainingData')
      /\ (trainPc = "saving" /\ trainPc' = "idle") =>
           /\ ~outcome'.threw
           /\ outcome'.message = <<"history", "">>
           /\ UNCHANGED <<trainingData, model, isModelReady, extractedText>>
      /\ (trainPc = "fitting" /\ \E fallbackOk \in BOOLEAN :
                                   TrainFit(TRUE, FALSE, fallbackOk)) =>
           /\ ~outcome'.threw
           /\ outcome'.message = <<"history", "">>
           /\ model'.fits = Min2(MaxFits, model.fits + 1)
           /\ UNCHANGED <<trainingData, isModelReady, extractedText>> ]_vars

\* with the remote store configured, train() returned the history and left
\* the fitted model ready although the weights were not stored
C20_Witness ==
  /\ useSupabase
  /\ outcome.op = "train"
  /\ ~outcome.threw
  /\ outcome.message = <<"history", "">>
  /\ ~outcome.saved
  /\ model.built /\ model.fits = 1
  /\ isModelReady

----------------------------------------------------------------------------
(* The claims about calls that overlap.                                     *)

\* C21: examples added while train() is suspended stay in the training set,
\* and the run in flight fits on exactly the examples that were in the
\* training set when that train() call started
C21_FitsOnSnapshotAtCall ==
  /\ [](trainPc \in {"fitting", "saving"} => fit.data = fit.started)
  /\ [][ (trainPc # "idle" /\ AddTrainingData(lastData')) =>
           /\ trainingData' = trainingData \o validDataOf(lastData')
           /\ UNCHANGED <<trainPc, fit>> ]_vars
  /\ [][ trainPc # "idle" => Len(trainingData') >= Len(trainingData) ]_vars

\* a step that is an analysis in which the App calls predict()
AnalyzePredictsStep ==
  /\ PredictionGate(app.trainingDataSize)
  /\ outcome'.op = "predict"
  /\ \E out \in Outputs, tfOk \in BOOLEAN : AppAnalyze(out, tfOk)

\* C22: while a train() call started by trainModel is in flight the trigger
\* of train() is disabled, and no analysis calls predict()
C22_AppSerialisesTrainAndPredict ==
  /\ [](trainPc # "idle" => TrainDisabled)
  /\ [][ AnalyzePredictsStep => trainPc = "idle" ]_vars

\* the part of C22 about train(): its trigger is disabled while a call is
\* in flight
C22_NoSecondTrain == trainPc # "idle" => TrainDisabled

\* C30: the App shows a prediction only after a train() call has returned
\* its history, and once one has, on a training set of 10 examples or more,
\* an analysis shows a prediction: the gate of analyzeTextAdvanced is open
C30_PredictionGateAgreesWithTraining ==
  /\ app.mlPrediction # <<>> => app.trained
  /\ (app.trained /\ app.trainingDataSize >= MinTrainingData)
       => PredictionGate(app.trainingDataSize)

\* the first part of C30 alone: a prediction shown follows a train() call
\* that returned its history
C30_ShownOnlyAfterTraining == app.mlPrediction # <<>> => app.trained

\* the second part of C30 alone: after a train() call that returned its
\* history the gate of the prediction is open
C30_ShownOnceTrained ==
  (app.trained /\ app.trainingDataSize >= MinTrainingData)
    => PredictionGate(app.trainingDataSize)

----------------------------------------------------------------------------
(* The claims about the details of analyzeText, the vector and the labels. *)

\* the occurrences of the keywords of indicator k in t: the number of the
\* keyword and the position where it stands as a whole word
OccurrencesOf(t, k) ==
  { o \in (1..Len(INDICATORS[k].keywords)) \X (1..Len(t)) :
      WholeWordAt(t, INDICATORS[k].keywords[o[1]], o[2]) }

\* the detail the claim gives the occurrence o of a keyword of indicator k:
\* the matched string, and the text from 30 characters before its start to
\* 30 characters after its end, clipped to the text
DetailAt(t, k, o) ==
  LET kw == INDICATORS[k].keywords[o[1]]
  IN [original |-> PieceAt(t, kw, o[2]),
      context  |-> SubSeq(t, Max2(1, o[2] - 30),
                          Min2(Len(t), o[2] + Len(kw) - 1 + 30))]

\* occurrence o comes before occurrence p in the order of the scan: by
\* keyword, then by position
ScannedBefore(o, p) == o[1] < p[1] \/ (o[1] = p[1] /\ o[2] < p[2])

\* C23: every occurrence of a keyword has its detail among matchDetails,
\* every entry is the detail of an occurrence, no two entries are equal in
\* both fields, and the entries stand in the order of their first occurrences
C23_OneDetailPerOccurrence ==
  (pc = "done" /\ analysis # <<>>) =>
    \A k \in 1..Len(analysis) :
      LET det == analysis[k].matchDetails
          occ == OccurrencesOf(text, k)
      IN /\ \A o \in occ : \E n \in 1..Len(det) : det[n] = DetailAt(text, k, o)
         /\ \A n \in 1..Len(det) : \E o \in occ : det[n] = DetailAt(text, k, o)
         /\ \A n, m \in 1..Len(det) : n < m => det[n] # det[m]
         /\ \A n, m \in 1..Len(det) :
              n < m =>
                \E o \in occ :
                  /\ det[n] = DetailAt(text, k, o)
                  /\ \A p \in occ :
                       det[m] = DetailAt(text, k, p) => ScannedBefore(o, p)

\* "force" occurs twice with the same letters and the same clipped context,
\* and indicator 3 has one entry for the two occurrences
C23_Witness ==
  /\ pc = "done"
  /\ Len(analysis) = 4
  /\ Len(analysis[3].matchDetails) = 1
  /\ \E i, j \in 1..Len(text) :
       /\ i < j
       /\ WholeWordAt(text, <<"f","o","r","c","e">>, i)
       /\ WholeWordAt(text, <<"f","o","r","c","e">>, j)
       /\ DetailAt(text, 3, <<2, i>>) = DetailAt(text, 3, <<2, j>>)

\* the number of times the word w stands among the tokens of t
OccurrencesIn(t, w) ==
  Cardinality({j \in 1..Len(wordsOf(t)) : wordsOf(t)[j] = w})

\* C24: with k the smaller of 50 and the number of distinct tokens longer
\* than two characters, the vector holds at its first k positions the
\* numbers of occurrences of the first k tokens in the order Object.entries
\* gives them, 0 from position k on, and every element is a non-negative
\* integer
C24_VectorOfCounts ==
  pc = "done" =>
    LET k   == Min2(50, Cardinality(CountedTokens(text)))
        ord == entriesOf(CountWords(wordsOf(text)))
    IN /\ \A n \in 1..Len(vector) : vector[n][1] = "number" /\ vector[n][2] >= 0
       /\ \A n \in (k + 1)..Len(vector) : vector[n] = Num(0)
       /\ \A n \in 1..k :
            /\ n <= Len(ord)
            /\ vector[n] = Num(OccurrencesIn(text, ord[n].word))

\* the indicators that have a keyword contained in the sentence, letter
\* case aside
IndicatorsIn(sentence) == { i \in 1..4 : HasKeyword(toLowerCase(sentence), i) }

\* the label the claim gives a sentence, as twice its number: the lowest
\* indicator with a keyword in it, 0 when there is none
LabelOf(sentence) ==
  IF IndicatorsIn(sentence) = {} THEN 0 ELSE 2 * MinOf(IndicatorsIn(sentence))

\* C25: every example extractTrainingData returns carries the one label
\* that its sentence determines, whatever the sampling draws: the lowest
\* indicator with a keyword contained in it, and 0 only without one
C25_LabelDeterminedBySentence ==
  [][ TrainingDataStep =>
        \A k \in 1..Len(extraction'.result) :
          extraction'.result[k].label = LabelOf(extraction'.result[k].text) ]_vars

\* a sentence with keywords of the indicators 2 and 3 was returned with the
\* label 2, beside a sentence without a keyword that a draw let in
C25_Witness ==
  /\ extraction.op = "extractTrainingData"
  /\ ~extraction.threw
  /\ \E k \in 1..Len(extraction.result) :
       /\ IndicatorsIn(extraction.result[k].text) = {2, 3}
       /\ extraction.result[k].label = 4
  /\ \E k \in 1..Len(extraction.result) : extraction.result[k].label = 0

\* the terminated sentences of the paragraphs ps, in order
TerminatedSentences(ps) == Flatten([k \in 1..Len(ps) |-> sentencesOf(ps[k])])

\* the sentences among ss that are long enough to be kept
LongEnough(ss) == SelectSeq(ss, LAMBDA x : Len(trim(x)) >= 20)

\* the trimmed texts of the sentences among ss that are long enough and
\* hold an indicator keyword
WithKeyword(ss) ==
  LET q == SelectSeq(LongEnough(ss), LAMBDA x : IndicatorsIn(x) # {})
  IN [n \in 1..Len(q) |-> trim(q[n])]

\* the texts of the examples of r with a label other than 0
MatchedTexts(r) ==
  LET q == SelectSeq(r, LAMBDA e : e.label # 0)
  IN [n \in 1..Len(q) |-> q[n].text]

\* what C26 says of a call that returned r on the text t, for the
\* sentences ss that are eligible: each of them that is long enough and
\* holds a keyword gives exactly one example, the other examples are
\* sentences long enough without a keyword, and a text without a
\* terminator gives none
ExamplesAreOf(r, t, ss) ==
  /\ MatchedTexts(r) = WithKeyword(ss)
  /\ \A k \in 1..Len(r) :
       r[k].label = 0 =>
         \E n \in 1..Len(LongEnough(ss)) :
           /\ r[k].text = trim(LongEnough(ss)[n])
           /\ IndicatorsIn(LongEnough(ss)[n]) = {}
  /\ NoTerminator(t) => r = <<>>

\* a step that is an extractTrainingData() call that went through the
\* labeling of a text
LabelingStep ==
  /\ TrainingDataStep
  /\ ~extraction'.threw
  /\ ~extraction'.faulted

\* C26 as claimed: a terminated sentence is discarded only when it is
\* shorter than 20 characters or holds no keyword and is not drawn,
\* whatever the length of its paragraph
C26_DiscardsOnlyShortOrUndrawn ==
  [][ LabelingStep =>
        ExamplesAreOf(extraction'.result, extractedText,
                      TerminatedSentences(paragraphsOf(extractedText))) ]_vars

\* C26 amended: the same for the sentences of the paragraphs whose trimmed
\* length is above 50; the sentences of the other paragraphs are discarded
C26_DiscardsShortParagraphsToo ==
  [][ LabelingStep =>
        ExamplesAreOf(extraction'.result, extractedText,
                      TerminatedSentences(
                        SelectSeq(paragraphsOf(extractedText),
                                  LAMBDA x : Len(trim(x)) > 50))) ]_vars

\* the text holds the short page as a paragraph of its own and the long
\* page: the sentence of the short page holds a keyword and is not among
\* the examples, the first sentence of the long page is
C26_Witness ==
  /\ extraction.op = "extractTrainingData"
  /\ ~extraction.threw
  /\ extractedText = ShortPage \o PageSeparator \o LongPage
  /\ IndicatorsIn(ShortPage) # {}
  /\ Len(trim(ShortPage)) >= 20
  /\ Len(extraction.result) > 0
  /\ \A k \in 1..Len(extraction.result) : extraction.result[k].text # trim(ShortPage)

----------------------------------------------------------------------------
(* The claims about the yield points, the stored records and the pages.    *)

\* extractText suspends after each batch of pages: the batch in hand is
\* left only for the timer, and a batch is asked for only once the document
\* is open or the timer has fired
C27_ExtractTextYields ==
  [][ /\ (extractPc.at = "pages" /\ extractPc' # extractPc) => extractPc'.at = "pause"
      /\ (extractPc'.at = "pages" /\ extractPc' # extractPc) =>
            extractPc.at \in {"document", "pause"} ]_vars

\* a call of extractText that is in flight ends only by its return or its
\* throw: nothing cancels it
C27_NoCancellation ==
  [][ (extractPc.at # "idle" /\ extractPc'.at = "idle") =>
        /\ extraction'.op = "extractText"
        /\ extraction'.threw \/ extraction'.result = extractedText' ]_vars

\* a call of extractTrainingData that labels a text of several paragraphs
\* returns in a later step than the one in which it set its status
C27_LabelingYields ==
  [][ (LabelingStep /\ Len(paragraphsOf(extractedText)) > 1) =>
        processingStatus = PStatus("Extracting training data...", 0, 0) ]_vars

\* C27: extractText suspends between its batches of pages and
\* extractTrainingData between its chunks of paragraphs, so that other
\* steps are taken before the labeling of a text ends, and a call that was
\* started runs to its end
C27_ChunkedWithYieldPoints ==
  /\ C27_ExtractTextYields
  /\ C27_NoCancellation
  /\ C27_LabelingYields

\* a step in which loadTrainingDataFromSupabase() goes on after its await
LoadTrainingDataStep ==
  /\ "loadTrainingData" \in pending
  /\ "loadTrainingData" \notin pending'

\* C28: the examples read back from the remote store when the classifier
\* is constructed are not written to it again: the step that takes them
\* into the training set starts no mlStorage.storeTrainingData call
C28_LoadedExamplesAreNotStoredAgain ==
  [][ LoadTrainingDataStep =>
        ("storeTrainingData" \in pending' => "storeTrainingData" \in pending) ]_vars

RECURSIVE ReadsPages(_, _, _, _, _)
\* whether t is what the pages p..hi of doc give when each is read once, in
\* ascending order, in batches of three counted from lo: the text of the
\* page or of its failure, then the separator but after the last page of a
\* batch
ReadsPages(t, doc, lo, p, hi) ==
  IF p > hi THEN t = <<>>
  ELSE \E page \in {IF p <= Len(doc) THEN doc[p] ELSE <<>>, ErrorPage(p)} :
         LET sep == IF p < hi /\ (p - lo + 1) % 3 # 0 THEN <<"\n", "\n">> ELSE <<>>
             head == page \o sep
         IN /\ Len(t) >= Len(head)
            /\ SubSeq(t, 1, Len(head)) = head
            /\ ReadsPages(SubSeq(t, Len(head) + 1, Len(t)), doc, lo, p + 1, hi)

\* the pages read once the batch in hand has settled (at the timer) or
\* before it has (while its pages are asked for)
pagesReadAt(frame) ==
  LET batches == frame.batch + (IF frame.at = "pause" THEN 1 ELSE 0)
      upTo == frame.startPageNum + 3 * batches - 1
  IN IF upTo < frame.maxPage THEN upTo ELSE frame.maxPage

\* while a call is between its batches the text in hand holds every page
\* of the batches asked for so far, once each and in order, and no other
C29_PagesInBatches ==
  extractPc.at \in {"pages", "pause"} =>
    /\ 1 <= extractPc.startPageNum
    /\ extractPc.startPageNum <= extractPc.maxPage
    /\ extractPc.maxPage <= pdf.numPages
    /\ ReadsPages(extractPc.text, extractPc.doc, extractPc.startPageNum,
                  extractPc.startPageNum, pagesReadAt(extractPc))

\* once the document is open the range is max(1, start) to min(end or N, N)
\* and the call rejects exactly when that range is empty
C29_RangeOrReject ==
  [][ (extractPc.at = "document" /\ extractPc' # extractPc /\ ~extractPc.corrupt) =>
        LET lo == IF extractPc.startPageNum < 1 THEN 1 ELSE extractPc.startPageNum
            end == IF extractPc.maxPage = 0 THEN pdf.numPages ELSE extractPc.maxPage
            hi == IF end < pdf.numPages THEN end ELSE pdf.numPages
        IN IF lo > hi
           THEN /\ extractPc'.at = "idle"
                /\ extraction'.op = "extractText"
                /\ extraction'.threw
           ELSE /\ extractPc'.at = "pages"
                /\ extractPc'.startPageNum = lo
                /\ extractPc'.maxPage = hi
                /\ extractPc'.batch = 0
                /\ extractPc'.text = <<>> ]_vars

\* a call that returns gives the text of every page of its range and keeps
\* it; a call that rejects leaves the text kept before; either way the
\* status is empty when the call has ended
C29_EndOfCall ==
  [][ /\ (extractPc.at # "idle" /\ extractPc'.at = "idle") =>
           /\ extraction'.op = "extractText"
           /\ processingStatus' = <<"", 0, 0>>
           /\ ~extraction'.threw =>
                /\ extraction'.result = extractedText'
                /\ ReadsPages(extraction'.result, extractPc.doc,
                              extractPc.startPageNum, extractPc.startPageNum,
                              extractPc.maxPage)
      /\ (extraction'.op = "extractText" /\ extraction'.threw) =>
           extractedText' = extractedText ]_vars

\* while no file was loaded nothing is in flight, a call has rejected and
\* the status is empty
C29_NoPdfLoaded ==
  ~pdf.loaded =>
    /\ extractPc.at = "idle"
    /\ extraction.op = "extractText" => extraction.threw
    /\ processingStatus = <<"", 0, 0>>

\* C29: extractText(start, end) on a document of N pages reads every page
\* of max(1, start)..min(end or N, N) once, in ascending order, in
\* consecutive batches of at most three pages, a batch being asked for only
\* when the one before has settled; it rejects when the range is empty or
\* no file was loaded, a rejected call leaves the text kept before, and the
\* status is empty when the call has ended
C29_ExtractsRangeInBatches ==
  /\ []C29_PagesInBatches
  /\ C29_RangeOrReject
  /\ C29_EndOfCall
  /\ []C29_NoPdfLoaded

\* the four pages were read in two batches and the text kept; a later call
\* with a start beyond its end was rejected and the text is still there
C29_Witness ==
  /\ extraction.op = "extractText"
  /\ extraction.threw
  /\ extraction.message = "Start page cannot be greater than end page"
  /\ extractedText = ShortPage \o <<"\n", "\n">> \o BlankPage \o <<"\n", "\n">>
                       \o LongPage \o NoStopPage
  /\ processingStatus = <<"", 0, 0>>

====
